---------------------------- MODULE Spec2Model ----------------------------
(***************************************************************************)
(* The DeepZoom engine of python/lib/deepzoom.c over an opened slide.      *)
(*                                                                         *)
(* C doubles are modelled as exact rationals [n, d] (d > 0); a double that *)
(* only ever holds an integer is modelled as that integer.  A pointer to   *)
(* an array of N elements is a sequence of length N (C index i is TLA+     *)
(* index i + 1) and the NULL pointer is the empty sequence, which is also  *)
(* what g_new0 returns for N = 0.  Property strings are modelled by the    *)
(* number strtod parses from them; an absent property is Absent.           *)
(***************************************************************************)
EXTENDS Integers, Sequences, FiniteSets, TLC

VARIABLES pc, dpz, out, mem, cell, thr, backend, det, pix, path, cache, rd, resp

\* the DeepZoom object, the result of the last call on it and the buffers
\* of the last deepzoom_get_tile call
dzvars == <<pc, dpz, out, mem>>
\* the error cell and the threads that propagate errors into it
errvars == <<cell, thr>>
\* the tile cache of an opened slide and the threads that read tiles
tilevars == <<cache, rd, resp>>
\* the slide a vendor backend opened, the last format detection, the last
\* pixel conversion, the last path derivation
nondz == <<cell, thr, backend, det, pix, path, cache, rd, resp>>
nonerr == <<pc, dpz, out, mem, backend, det, pix, path, cache, rd, resp>>
nonbackend == <<pc, dpz, out, mem, cell, thr, det, pix, path, cache, rd, resp>>
nondet == <<pc, dpz, out, mem, cell, thr, backend, pix, path, cache, rd, resp>>
nonpix == <<pc, dpz, out, mem, cell, thr, backend, det, path, cache, rd, resp>>
nonpath == <<pc, dpz, out, mem, cell, thr, backend, det, pix, cache, rd, resp>>
nontile == <<pc, dpz, out, mem, cell, thr, backend, det, pix, path>>
vars == <<pc, dpz, out, mem, cell, thr, backend, det, pix, path, cache, rd, resp>>

---------------------------------------------------------------------------
(* Bounds of the model *)

MaxDim == 4
MaxTile == 2
MaxOverlap == 2
\* threads that report an error to one DeepZoom object
MaxThreads == 2
\* levels of an ETS tile directory, largest tile coordinate, tile edge
MaxEtsLevels == 3
MaxTileIdx == 1
MaxTileDim == 2
\* directories of a TIFF file, their largest width, levels and channels of
\* its image description
MaxTifDirs == 3
MaxTifWidth == 3
MaxTifLevels == 2
MaxChannels == 2
\* entries of the payload directory of a .vsi file, files of a stack directory
MaxEntries == 2
MaxFiles == 2
\* characters of a slide's stem, components of its directory
MaxName == 2
MaxDepth == 2
\* threads reading tiles of one slide, tiles the cache's budget holds
MaxReaders == 2
CacheTiles == 1

---------------------------------------------------------------------------
(* Arithmetic of the C expressions *)

Max(a, b) == IF a >= b THEN a ELSE b
Min(a, b) == IF a <= b THEN a ELSE b

\* ceil(a / b) and floor(a / b) of the exact quotient, b > 0
CeilDiv(a, b) == -((-a) \div b)
FloorDiv(a, b) == a \div b

\* conversion of a double n/d to an integer type: truncation toward zero
TruncDiv(a, b) == IF a >= 0 THEN a \div b ELSE -((-a) \div b)

\* doubles as exact rationals
Rat(n, d) == [n |-> n, d |-> d]
RMulInt(r, k) == Rat(r.n * k, r.d)
RAddInt(r, k) == Rat(r.n + k * r.d, r.d)
RCeil(r) == CeilDiv(r.n, r.d)
RTrunc(r) == TruncDiv(r.n, r.d)

Pow2(k) == 2 ^ k

\* element i (C index) of array arr
At(arr, i) == arr[i + 1]
ValidIndex(arr, i) == (i + 1) \in DOMAIN arr

NULL == << >>

Absent == -1

---------------------------------------------------------------------------
(* The slide handed back by openslide_open *)

Level(w, h, dn, dd) == [w |-> w, h |-> h, dn |-> dn, dd |-> dd]

Slide(state, levels, bx, by, bw, bh) ==
  [state |-> state, levels |-> levels, bx |-> bx, by |-> by, bw |-> bw, bh |-> bh]

NullSlide == Slide("null", << >>, Absent, Absent, Absent, Absent)
ErrorSlide == Slide("error", << >>, Absent, Absent, Absent, Absent)

\* level lists of a W x H slide: one level; a second level at downsample 2
\* (rounded up, or rounded down as truncating pyramids do); a second level
\* at the non power of two downsample 3/2
LevelLists(W, H) ==
  { << Level(W, H, 1, 1) >> }
  \cup (IF W > 1 \/ H > 1
        THEN { << Level(W, H, 1, 1), Level(CeilDiv(W, 2), CeilDiv(H, 2), 2, 1) >> }
        ELSE {})
  \cup (IF W > 1 /\ H > 1
        THEN { << Level(W, H, 1, 1), Level(W \div 2, H \div 2, 2, 1) >> }
        ELSE {})
  \cup (IF W > 2 /\ H > 2
        THEN { << Level(W, H, 1, 1),
                  Level(CeilDiv(2 * W, 3), CeilDiv(2 * H, 3), 3, 2) >> }
        ELSE {})

\* bounds properties of a W x H slide: absent, or a rectangle inside it
BoundsOf(W, H) ==
  { <<Absent, Absent, Absent, Absent>> }
  \cup (IF W > 1 THEN { <<1, 0, W - 1, H>> } ELSE {})
  \cup (IF H > 1 THEN { <<0, 1, W, H - 1>> } ELSE {})

SmallSlides ==
  UNION { UNION { { Slide("ok", ll, b[1], b[2], b[3], b[4]) :
                      ll \in LevelLists(W, H), b \in BoundsOf(W, H) } :
                  W \in 1..MaxDim } : H \in 1..MaxDim }

\* the 1024 x 512 slide of the DeepZoom scenarios
ScenarioSlide ==
  Slide("ok", << Level(1024, 512, 1, 1) >>, Absent, Absent, Absent, Absent)

Slides == SmallSlides \cup { ScenarioSlide, NullSlide, ErrorSlide }

TileSizes == (1..MaxTile) \cup { 254 }
Overlaps == 0..MaxOverlap

---------------------------------------------------------------------------
(* The openslide calls deepzoom.c makes *)

openslide_get_error(osr) == osr.state = "error"

openslide_get_level_count(osr) == Len(osr.levels)

\* (-1, -1) on a slide in error state or for a level that does not exist
openslide_get_level_dimensions(osr, i) ==
  IF osr.state = "ok" /\ ValidIndex(osr.levels, i)
  THEN [x |-> At(osr.levels, i).w, y |-> At(osr.levels, i).h]
  ELSE [x |-> -1, y |-> -1]

openslide_get_level0_dimensions(osr) == openslide_get_level_dimensions(osr, 0)

\* the downsample of level i as the rational dn / dd
openslide_get_level_downsample(osr, i) ==
  Rat(At(osr.levels, i).dn, At(osr.levels, i).dd)

\* the slides here have one plane; -1 on a slide in error state
openslide_get_plane_count(osr) == IF osr.state = "ok" THEN 1 ELSE -1

\* the value of openslide.mpp-x or openslide.mpp-y as strtod reads it, given
\* the value the property table holds; Absent (NULL) on a slide in error
\* state
openslide_get_property_value(osr, value) ==
  IF osr.state = "ok" THEN value ELSE Absent

\* the level whose downsample is the largest one not exceeding ds (an
\* integer here); level 0 when none is
openslide_get_best_level_for_downsample(osr, ds) ==
  LET fit == { i \in 0..(Len(osr.levels) - 1) :
                 At(osr.levels, i).dn <= ds * At(osr.levels, i).dd }
  IN IF fit = {} THEN 0
     ELSE CHOOSE i \in fit :
            \A j \in fit :
              At(osr.levels, j).dn * At(osr.levels, i).dd
                <= At(osr.levels, i).dn * At(osr.levels, j).dd


---------------------------------------------------------------------------
(* deepzoom.c *)

NoError == "(null)"

\* g_slice_new0(deepzoom_t): every field zero
create_deepzoom ==
  [ osr |-> NullSlide,
    z_t_downsample |-> 0,
    z_overlap |-> 0,
    limit_bounds |-> FALSE,
    l_dimensions |-> NULL,
    l0_offset |-> [x |-> 0, y |-> 0],
    dz_levels |-> 0,
    t_dimensions |-> NULL,
    z_dimensions |-> NULL,
    slide_from_dz_level |-> NULL,
    l0_l_downsamples |-> NULL,
    l_z_downsamples |-> NULL,
    error |-> NoError ]

\* halving that rounds down
HalveFloor(w) == Max(1, w \div 2)

\* w = fmax(1, ceil(w * .5))
Halve(w) == Max(1, CeilDiv(w, 2))

RECURSIVE LevelCountLoop(_, _, _)
LevelCountLoop(w, h, count) ==
  IF w > 1 \/ h > 1
  THEN LevelCountLoop(Halve(w), Halve(h), count + 1)
  ELSE count

deepzoom_get_level_count(d) ==
  LET l0 == openslide_get_level0_dimensions(d.osr)
  IN LevelCountLoop(l0.x, l0.y, 1)

RECURSIVE LevelDimensionsLoop(_, _, _, _)
LevelDimensionsLoop(i, w, h, z_dimensions) ==
  IF i >= 0
  THEN LevelDimensionsLoop(i - 1, Halve(w), Halve(h),
                           [z_dimensions EXCEPT ![i + 1] = [x |-> w, y |-> h]])
  ELSE z_dimensions

deepzoom_level_dimensions_eval(d) ==
  IF d.dz_levels = 0 THEN NULL
  ELSE LET l0 == openslide_get_level0_dimensions(d.osr)
       IN LevelDimensionsLoop(d.dz_levels - 1, l0.x, l0.y,
                              [i \in 1..d.dz_levels |-> [x |-> 0, y |-> 0]])

\* a tile table that drops the partial tile at the edge
LevelTilesFloor(zd, z_t_downsample) ==
  [x |-> zd.x \div z_t_downsample, y |-> zd.y \div z_t_downsample]

\* one entry of the tile table: ceil(zd / z_t_downsample) per axis
LevelTiles(zd, z_t_downsample) ==
  [x |-> CeilDiv(zd.x, z_t_downsample), y |-> CeilDiv(zd.y, z_t_downsample)]

deepzoom_level_tiles_eval(d) ==
  IF d.dz_levels = 0 THEN NULL
  ELSE IF d.z_dimensions = NULL THEN NULL
  ELSE [i \in 1..d.dz_levels |-> LevelTiles(d.z_dimensions[i], d.z_t_downsample)]

deepzoom_slide_from_dz_level_eval(d) ==
  IF d.dz_levels = 0 THEN NULL
  ELSE [i \in 1..d.dz_levels |->
          openslide_get_best_level_for_downsample(d.osr, Pow2(d.dz_levels - (i - 1) - 1))]

\* err is the message of the GError passed in, NoError for a NULL GError
_deepzoom_propagate_error(d, err) ==
  IF err = NoError THEN d
  ELSE IF d.error = NoError THEN [d EXCEPT !.error = err]
  ELSE d

\* the slide level dimensions and downsamples and the level 0 offset that
\* deepzoom_open precomputes
SlideLevelDimensions(osr, limit_bounds) ==
  LET levels == openslide_get_level_count(osr)
      l0 == openslide_get_level_dimensions(osr, 0)
      \* s = pw ? strtod(pw) / w : 1
      sx == IF osr.bw # Absent THEN Rat(osr.bw, l0.x) ELSE Rat(1, 1)
      sy == IF osr.bh # Absent THEN Rat(osr.bh, l0.y) ELSE Rat(1, 1)
  IN [i \in 1..levels |->
        LET wh == openslide_get_level_dimensions(osr, i - 1)
        IN IF limit_bounds
           THEN [x |-> RCeil(RMulInt(sx, wh.x)), y |-> RCeil(RMulInt(sy, wh.y))]
           ELSE [x |-> wh.x, y |-> wh.y]]

Level0Offset(osr, limit_bounds) ==
  IF limit_bounds
  THEN [x |-> IF osr.bx # Absent THEN osr.bx ELSE 0,
        y |-> IF osr.by # Absent THEN osr.by ELSE 0]
  ELSE [x |-> 0, y |-> 0]

\* l_z_downsamples[i] = pow(2, dz_levels - i - 1) / l0_l_downsamples[idx]
PiecewiseDownsamples(d) ==
  [i \in 1..d.dz_levels |->
     LET idx == d.slide_from_dz_level[i]
         l0_l_downsample == At(d.l0_l_downsamples, idx)
     IN Rat(Pow2(d.dz_levels - (i - 1) - 1) * l0_l_downsample.d, l0_l_downsample.n)]

\* deepzoom_open on a slide that opened without error
OpenHealthy(osr, tile_size, overlap, limit_bounds) ==
  LET levels == openslide_get_level_count(osr)
      d1 == [create_deepzoom EXCEPT
               !.osr = osr,
               !.z_t_downsample = tile_size,
               !.z_overlap = overlap,
               !.limit_bounds = limit_bounds,
               !.l_dimensions = SlideLevelDimensions(osr, limit_bounds),
               !.l0_l_downsamples =
                 [i \in 1..levels |-> openslide_get_level_downsample(osr, i - 1)],
               !.l0_offset = Level0Offset(osr, limit_bounds)]
      d2 == [d1 EXCEPT !.dz_levels = deepzoom_get_level_count(d1)]
      d3 == [d2 EXCEPT !.z_dimensions = deepzoom_level_dimensions_eval(d2)]
      d4 == [d3 EXCEPT !.t_dimensions = deepzoom_level_tiles_eval(d3)]
      d5 == [d4 EXCEPT !.slide_from_dz_level = deepzoom_slide_from_dz_level_eval(d4)]
  IN [d5 EXCEPT !.l_z_downsamples = PiecewiseDownsamples(d5)]

\* The outcomes of deepzoom_open.  The function has no path that returns
\* NULL.  openslide_get_error(NULL) reads through the null handle: the
\* call dies, or the garbage it read is non-null and the object is returned
\* early.  On a slide in error state tmp_err is still NULL when it is
\* propagated: g_return_if_fail returns at once, or with the checks
\* compiled out err->message is read through NULL.
deepzoom_open(osr, tile_size, overlap, limit_bounds) ==
  LET d0 == [create_deepzoom EXCEPT !.osr = osr]
  IN IF osr.state = "null"
     THEN { [pc |-> "crashed", dpz |-> d0, ret |-> "none"],
            [pc |-> "open", dpz |-> d0, ret |-> "object"] }
     ELSE IF openslide_get_error(osr)
     THEN { [pc |-> "open", dpz |-> _deepzoom_propagate_error(d0, NoError),
             ret |-> "object"],
            [pc |-> "crashed", dpz |-> d0, ret |-> "none"] }
     ELSE { [pc |-> "open",
             dpz |-> OpenHealthy(osr, tile_size, overlap, limit_bounds),
             ret |-> "object"] }

---------------------------------------------------------------------------
(* The queries *)

Info(x, y, lvl, outw, outh, scalew, scaleh) ==
  [x |-> x, y |-> y, lvl |-> lvl, outw |-> outw, outh |-> outh,
   scalew |-> scalew, scaleh |-> scaleh]

\* the FAIL label of deepzoom_get_tile_info
InfoFail == Info(-1, -1, -1, -1, -1, -1, -1)

deepzoom_l0_from_l(d, level, l) == RMulInt(At(d.l0_l_downsamples, level), l)

deepzoom_l_from_z(d, level, z) == RMulInt(At(d.l_z_downsamples, level), z)

deepzoom_z_from_t(d, t) == d.z_t_downsample * t

\* z_overlap * t != 0 parses as (z_overlap * t) != 0: the value is 0 or 1
OverlapTopLeft(d, t) == IF d.z_overlap * t # 0 THEN 1 ELSE 0

\* z_overlap * (t != tiles - 1)
OverlapBottomRight(d, t, tiles) == d.z_overlap * (IF t # tiles - 1 THEN 1 ELSE 0)

\* an axis whose read size is not clipped to the slide level
TileAxisUnclipped(d, level, slide_level, t, tiles, zdim, ldim, off) ==
  LET z_overlap_tl == OverlapTopLeft(d, t)
      z_overlap_br == OverlapBottomRight(d, t, tiles)
      z_size == Min(d.z_t_downsample, zdim - d.z_t_downsample * t)
                  + z_overlap_tl + z_overlap_br
      z_location == deepzoom_z_from_t(d, t)
      l_location == deepzoom_l_from_z(d, level, z_location - z_overlap_tl)
      l0_location == RAddInt(deepzoom_l0_from_l(d, slide_level, RTrunc(l_location)), off)
      l_size == RCeil(deepzoom_l_from_z(d, level, z_size))
  IN [init |-> RTrunc(l0_location), out |-> l_size, scale |-> z_size]

\* One axis of deepzoom_get_tile_info for tile index t: tiles, zdim and
\* ldim are that axis of t_dimensions[level], z_dimensions[level] and
\* l_dimensions[slide_level], off that axis of l0_offset.  The int32_t
\* parameters of the helpers truncate the doubles passed to them.
TileAxis(d, level, slide_level, t, tiles, zdim, ldim, off) ==
  LET z_overlap_tl == OverlapTopLeft(d, t)
      z_overlap_br == OverlapBottomRight(d, t, tiles)
      z_size == Min(d.z_t_downsample, zdim - d.z_t_downsample * t)
                  + z_overlap_tl + z_overlap_br
      z_location == deepzoom_z_from_t(d, t)
      l_location == deepzoom_l_from_z(d, level, z_location - z_overlap_tl)
      l0_location == RAddInt(deepzoom_l0_from_l(d, slide_level, RTrunc(l_location)), off)
      l_size == Min(RCeil(deepzoom_l_from_z(d, level, z_size)),
                    ldim - RCeil(l_location))
  IN [init |-> RTrunc(l0_location), out |-> l_size, scale |-> z_size]

LevelOutOfRange(d, level) == level < 0 \/ level >= d.dz_levels

\* an upper bound that is off by one
IndexOutOfRangeOffByOne(t, tiles) == t < 0 \/ t > tiles

IndexOutOfRange(t, tiles) == t < 0 \/ t >= tiles

\* fault: an array was read outside its elements
deepzoom_get_tile_info(d, level, w, h) ==
  IF LevelOutOfRange(d, level) THEN [fault |-> FALSE, info |-> InfoFail]
  ELSE IF ~ValidIndex(d.t_dimensions, level) THEN [fault |-> TRUE, info |-> InfoFail]
  ELSE IF IndexOutOfRange(w, At(d.t_dimensions, level).x)
  THEN [fault |-> FALSE, info |-> InfoFail]
  ELSE IF IndexOutOfRange(h, At(d.t_dimensions, level).y)
  THEN [fault |-> FALSE, info |-> InfoFail]
  ELSE LET slide_level == At(d.slide_from_dz_level, level)
       IN IF ~ValidIndex(d.l_dimensions, slide_level)
          THEN [fault |-> TRUE, info |-> InfoFail]
          ELSE LET t == At(d.t_dimensions, level)
                   z == At(d.z_dimensions, level)
                   l == At(d.l_dimensions, slide_level)
                   ax == TileAxis(d, level, slide_level, w, t.x, z.x, l.x, d.l0_offset.x)
                   ay == TileAxis(d, level, slide_level, h, t.y, z.y, l.y, d.l0_offset.y)
               IN [fault |-> FALSE,
                   info |-> Info(ax.init, ay.init, slide_level,
                                 ax.out, ay.out, ax.scale, ay.scale)]

RECURSIVE TileCountLoop(_, _, _)
TileCountLoop(d, i, s) ==
  IF i < d.dz_levels
  THEN TileCountLoop(d, i + 1, s + At(d.t_dimensions, i).x * At(d.t_dimensions, i).y)
  ELSE s

deepzoom_get_tile_count(d) == TileCountLoop(d, 0, 0)

deepzoom_get_level_tiles(d) == d.t_dimensions

deepzoom_get_level_dimensions(d) == d.z_dimensions

deepzoom_get_plane_count(d) == openslide_get_plane_count(d.osr)

\* mpp_x and mpp_y are the two property values; both outputs are 0 unless
\* both properties are present
deepzoom_get_micron_per_pixel(d, mpp_x, mpp_y) ==
  LET x == openslide_get_property_value(d.osr, mpp_x)
      y == openslide_get_property_value(d.osr, mpp_y)
  IN IF x # Absent /\ y # Absent THEN [mppx |-> x, mppy |-> y]
     ELSE [mppx |-> 0, mppy |-> 0]

\* a query that stores what it computed in the object
AfterQueryStored(d) == [d EXCEPT !.z_overlap = 0]

\* the deepzoom_t a query leaves behind: every query reads through dpz and
\* none assigns a field of it
AfterQuery(d) == d

\* what a read through a null array pointer leaves in the outputs when
\* the read does not trap
Garbage == { -1, 0 }

\* *w = l_dimensions[0].x, *h = l_dimensions[0].y
deepzoom_get_l0_dimensions(d) ==
  IF ValidIndex(d.l_dimensions, 0)
  THEN { [fault |-> FALSE, w |-> At(d.l_dimensions, 0).x, h |-> At(d.l_dimensions, 0).y] }
  ELSE { [fault |-> TRUE, w |-> 0, h |-> 0] }
       \cup { [fault |-> FALSE, w |-> gw, h |-> gh] : gw \in Garbage, gh \in Garbage }

---------------------------------------------------------------------------
(* The state machine: one DeepZoom object and the result of the last call *)

NoInfo == Info(0, 0, 0, 0, 0, 0, 0)

Out(op, level, col, row, ret, n, w, h, dims, info) ==
  [op |-> op, level |-> level, col |-> col, row |-> row, ret |-> ret,
   n |-> n, w |-> w, h |-> h, dims |-> dims, info |-> info]

NoOut == Out("none", 0, 0, 0, "none", 0, 0, 0, NULL, NoInfo)

\* a pixel buffer: the region openslide_read_region wrote into it
Buffer(filled, x, y, plane, level, w, h) ==
  [filled |-> filled, x |-> x, y |-> y, plane |-> plane, level |-> level,
   w |-> w, h |-> h]

EmptyBuffer == Buffer(FALSE, 0, 0, 0, 0, 0, 0)

\* the caller's dest buffer and the number of buffers allocated in the call
\* that nothing points to when it returns
NoMem == [dest |-> EmptyBuffer, local |-> EmptyBuffer, unreachable |-> 0]

Threads == 1..MaxThreads

\* dpz->error as a pointer: 0 is NULL, t is the copy thread t made of its
\* message; closed when deepzoom_close has run
NoCell == [error |-> 0, closed |-> FALSE]

\* a thread outside _deepzoom_propagate_error: err is the message of the
\* GError it passes, msg_frees and err_frees count the g_free of its copy
\* and the g_error_free of its GError
IdleThread == [pc |-> "idle", err |-> NoError, msg_frees |-> 0, err_frees |-> 0]

ErrIdle ==
  /\ cell = NoCell
  /\ thr = [t \in Threads |-> IdleThread]

\* struct sis_header and struct ets_header as read from the file; the
\* magics are TRUE when the four bytes are "SIS" and "ETS"
Header(sisMagic, headerSize, Ndim, etsoffset, etsnbytes, etsMagic, pixelType, sizeC, colorspace, compression, dimx, dimy, dimz) ==
  [sisMagic |-> sisMagic, headerSize |-> headerSize, Ndim |-> Ndim,
   etsoffset |-> etsoffset, etsnbytes |-> etsnbytes, etsMagic |-> etsMagic,
   pixelType |-> pixelType, sizeC |-> sizeC, colorspace |-> colorspace,
   compression |-> compression, dimx |-> dimx, dimy |-> dimy, dimz |-> dimz]

NoHeader == Header(FALSE, 0, 0, 0, 0, FALSE, 0, 0, 0, 0, 0, 0, 0)

\* what a backend left in the openslide_t: op is the open function, result
\* its return value ("abort" when the process died in it, "destroyed" once
\* the destroy operation has run), err the GError message, header, tiles
\* and dirs the file contents it was given.  ets_bytes is the number of
\* bytes ets_header_read took from the stream, handles the number of TIFF
\* handles taken from a handle cache and not put back, live the blocks the
\* backend allocated and has not freed, ops the operation set it
\* installed, paint the return value of the last paint_tif_region.
NoBackend ==
  [op |-> "none", result |-> "none", err |-> NoError, header |-> NoHeader,
   tiles |-> << >>, dirs |-> << >>, level_count |-> 0, plane_count |-> 0,
   levels |-> << >>, ets_bytes |-> 0, handles |-> 0, live |-> {},
   ops |-> "none", paint |-> "none"]

BackendIdle == backend = NoBackend
\* a file as the detection sees it: its name, whether it exists, what
\* _openslide_tifflike_create makes of it ("null" when it is no TIFF, else
\* "tiled" or "untiled") and its ImageDescription: "missing", "badxml" (no
\* XML), "nouser" (no /OME/Experimenter/@UserName), "other" (a UserName that
\* is not olympus) or "olympus"
File(name, exists, tl, desc) ==
  [name |-> name, exists |-> exists, tl |-> tl, desc |-> desc]

\* the result of the last detection: the file it was given, whether its
\* payload directory exists and the entries of that directory in the order
\* g_dir_read_name returns them, what the image files in it hold, whether
\* GLib checks its arguments, the return value ("crash" when the process
\* died) and the number of g_set_error calls on the caller's GError
NoDet ==
  [op |-> "none", file |-> File("", FALSE, "null", "missing"),
   has_payload |-> FALSE, payload |-> << >>,
   image |-> File("", FALSE, "null", "missing"),
   checks |-> TRUE, result |-> "none", errs |-> 0]

DetIdle == det = NoDet
\* the channels of one pixel
Channels(a, r, g, b) == [a |-> a, r |-> r, g |-> g, b |-> b]

\* the last pixel conversion: the byte order of the build, the four bytes
\* of the pixel before and after argb2rgba, the channel values after the
\* unpremultiply step was applied once and twice, the number of times it
\* was applied and whether a division by zero was reached
NoPix ==
  [op |-> "none", big_endian |-> FALSE, buf |-> << 0, 0, 0, 0 >>,
   out |-> << 0, 0, 0, 0 >>, first |-> Channels(0, 0, 0, 0),
   second |-> Channels(0, 0, 0, 0), n |-> 0, fault |-> FALSE]

PixIdle == pix = NoPix

NoPath == [op |-> "none", filename |-> << >>, payload |-> << >>, parent |-> << >>]

PathIdle == path = NoPath

\* the threads that read tiles of one slide
Readers == 1..MaxReaders

\* the entries the tile cache can have alive at once: one per reader and
\* the ones its budget holds, and one to spare
EntryIds == 1..(MaxReaders + CacheTiles + 1)

NoEntry == [state |-> "free", channel |-> 0, refs |-> 0, pixels |-> "none"]

\* no slide open: no backend, no tile directory, an empty cache
NoCache == [kind |-> "none", tile_ch |-> 0, tiles |-> << >>, ents |-> [e \in EntryIds |-> NoEntry], lru |-> << >>]

IdleReader == [pc |-> "idle", channel |-> 0, t |-> NULL, entry |-> 0, hit |-> FALSE]

\* no reader has returned yet
NoReturn == [reader |-> 0, channel |-> 0, t |-> NULL, hit |-> FALSE, decodes |-> 0, drew |-> "none", result |-> "none", err |-> NoError, files |-> 0, buffers |-> 0]

TileIdle ==
  /\ cache = NoCache
  /\ resp = NoReturn
  /\ rd = [r \in Readers |-> IdleReader]

DzIdle ==
  /\ pc = "closed"
  /\ dpz = create_deepzoom
  /\ out = NoOut
  /\ mem = NoMem

Init ==
  /\ DzIdle
  /\ ErrIdle
  /\ BackendIdle
  /\ DetIdle
  /\ PixIdle
  /\ PathIdle
  /\ TileIdle

Open ==
  /\ pc = "closed"
  /\ out = NoOut
  /\ \E osr \in Slides, tile_size \in TileSizes, overlap \in Overlaps,
        limit_bounds \in BOOLEAN :
       \E r \in deepzoom_open(osr, tile_size, overlap, limit_bounds) :
         /\ pc' = r.pc
         /\ dpz' = r.dpz
         /\ out' = [NoOut EXCEPT !.op = "deepzoom_open", !.ret = r.ret]
  /\ UNCHANGED <<mem, cell, thr, backend, det, pix, path, cache, rd, resp>>

\* the caller takes the result of the last call
Return ==
  /\ pc = "open"
  /\ out # NoOut
  /\ out' = NoOut
  /\ mem' = NoMem
  /\ UNCHANGED <<pc, dpz>>
  /\ UNCHANGED nondz

Close ==
  /\ pc = "open"
  /\ out = NoOut
  /\ pc' = "closed"
  /\ dpz' = create_deepzoom
  /\ UNCHANGED out
  /\ UNCHANGED <<mem, cell, thr, backend, det, pix, path, cache, rd, resp>>

GetLevelCount ==
  /\ pc = "open"
  /\ out = NoOut
  /\ IF dpz.osr.state = "null"
     THEN /\ pc' = "crashed"
          /\ out' = [NoOut EXCEPT !.op = "deepzoom_get_level_count"]
     ELSE /\ pc' = pc
          /\ out' = [NoOut EXCEPT !.op = "deepzoom_get_level_count",
                                  !.n = deepzoom_get_level_count(dpz)]
  /\ dpz' = AfterQuery(dpz)
  /\ UNCHANGED <<mem, cell, thr, backend, det, pix, path, cache, rd, resp>>

GetLevelTiles ==
  /\ pc = "open"
  /\ out = NoOut
  /\ out' = [NoOut EXCEPT !.op = "deepzoom_get_level_tiles",
                          !.dims = deepzoom_get_level_tiles(dpz)]
  /\ pc' = pc
  /\ dpz' = AfterQuery(dpz)
  /\ UNCHANGED <<mem, cell, thr, backend, det, pix, path, cache, rd, resp>>

GetLevelDimensions ==
  /\ pc = "open"
  /\ out = NoOut
  /\ out' = [NoOut EXCEPT !.op = "deepzoom_get_level_dimensions",
                          !.dims = deepzoom_get_level_dimensions(dpz)]
  /\ pc' = pc
  /\ dpz' = AfterQuery(dpz)
  /\ UNCHANGED <<mem, cell, thr, backend, det, pix, path, cache, rd, resp>>

GetTileCount ==
  /\ pc = "open"
  /\ out = NoOut
  /\ out' = [NoOut EXCEPT !.op = "deepzoom_get_tile_count",
                          !.n = deepzoom_get_tile_count(dpz)]
  /\ pc' = pc
  /\ dpz' = AfterQuery(dpz)
  /\ UNCHANGED <<mem, cell, thr, backend, det, pix, path, cache, rd, resp>>

GetL0Dimensions ==
  /\ pc = "open"
  /\ out = NoOut
  /\ \E r \in deepzoom_get_l0_dimensions(dpz) :
       /\ pc' = IF r.fault THEN "crashed" ELSE pc
       /\ out' = [NoOut EXCEPT !.op = "deepzoom_get_l0_dimensions",
                               !.w = r.w, !.h = r.h]
  /\ dpz' = AfterQuery(dpz)
  /\ UNCHANGED <<mem, cell, thr, backend, det, pix, path, cache, rd, resp>>

GetTileInfo ==
  /\ pc = "open"
  /\ out = NoOut
  /\ \E level \in -1..dpz.dz_levels, w \in -1..MaxDim, h \in -1..MaxDim :
       LET r == deepzoom_get_tile_info(dpz, level, w, h)
       IN /\ pc' = IF r.fault THEN "crashed" ELSE pc
          /\ out' = [NoOut EXCEPT !.op = "deepzoom_get_tile_info",
                                  !.level = level, !.col = w, !.row = h,
                                  !.info = r.info]
  /\ dpz' = AfterQuery(dpz)
  /\ UNCHANGED <<mem, cell, thr, backend, det, pix, path, cache, rd, resp>>

GetPlaneCount ==
  /\ pc = "open"
  /\ out = NoOut
  /\ IF dpz.osr.state = "null"
     THEN /\ pc' = "crashed"
          /\ out' = [NoOut EXCEPT !.op = "deepzoom_get_plane_count"]
     ELSE /\ pc' = pc
          /\ out' = [NoOut EXCEPT !.op = "deepzoom_get_plane_count",
                                  !.n = deepzoom_get_plane_count(dpz)]
  /\ dpz' = AfterQuery(dpz)
  /\ UNCHANGED <<mem, cell, thr, backend, det, pix, path, cache, rd, resp>>

\* the outputs *mppx and *mppy are kept in w and h
GetMicronPerPixel ==
  /\ pc = "open"
  /\ out = NoOut
  /\ IF dpz.osr.state = "null"
     THEN /\ pc' = "crashed"
          /\ out' = [NoOut EXCEPT !.op = "deepzoom_get_micron_per_pixel"]
     ELSE /\ pc' = pc
          /\ \E mpp_x \in {Absent, 1}, mpp_y \in {Absent, 2} :
               LET r == deepzoom_get_micron_per_pixel(dpz, mpp_x, mpp_y)
               IN out' = [NoOut EXCEPT !.op = "deepzoom_get_micron_per_pixel",
                                       !.w = r.mppx, !.h = r.mppy]
  /\ dpz' = AfterQuery(dpz)
  /\ UNCHANGED <<mem, cell, thr, backend, det, pix, path, cache, rd, resp>>

\* what openslide_read_region leaves in the buffer it is given: the pixels
\* of the region, or nothing on a slide in error state
openslide_read_region(osr, x, y, plane, level, w, h) ==
  IF osr.state = "ok" THEN Buffer(TRUE, x, y, plane, level, w, h)
  ELSE EmptyBuffer

\* dest is the caller's buffer.  The parameter dest is a copy of the
\* caller's pointer: g_slice_alloc overwrites the copy, the region is read
\* into the new buffer (local) and the copy dies at return, so the caller's
\* buffer is as it was and the new buffer has no owner.  The copy of a
\* non-null error string has no owner either.  g_slice_alloc(0) is NULL; a
\* negative size is a huge gsize and the allocation aborts.
deepzoom_get_tile(d, dest, plane, level, w, h) ==
  LET r == deepzoom_get_tile_info(d, level, w, h)
      i == r.info
      size == i.outw * i.outh * 4
      error == openslide_get_error(d.osr)
  IN IF r.fault \/ (i.outw # -1 /\ i.outh # -1 /\ size < 0)
     THEN [fault |-> TRUE, dest |-> dest, local |-> EmptyBuffer, unreachable |-> 0]
     ELSE IF i.outw = -1 \/ i.outh = -1
     THEN [fault |-> FALSE, dest |-> dest, local |-> EmptyBuffer, unreachable |-> 0]
     ELSE [fault |-> FALSE,
           dest |-> dest,
           local |-> IF size > 0
                     THEN openslide_read_region(d.osr, i.x, i.y, plane, i.lvl,
                                                i.outw, i.outh)
                     ELSE EmptyBuffer,
           unreachable |-> (IF size > 0 THEN 1 ELSE 0) + (IF error THEN 1 ELSE 0)]

\* the caller passes an untouched buffer; plane 0 is the only plane of the
\* slides above
GetTile ==
  /\ pc = "open"
  /\ out = NoOut
  /\ \E level \in -1..dpz.dz_levels, w \in -1..MaxDim, h \in -1..MaxDim :
       LET r == deepzoom_get_tile(dpz, EmptyBuffer, 0, level, w, h)
       IN /\ pc' = IF r.fault THEN "crashed" ELSE pc
          /\ out' = [NoOut EXCEPT !.op = "deepzoom_get_tile",
                                  !.level = level, !.col = w, !.row = h]
          /\ mem' = [dest |-> r.dest, local |-> r.local,
                     unreachable |-> r.unreachable]
  /\ UNCHANGED dpz
  /\ UNCHANGED nondz

Next ==
  \/ Open
  \/ Return
  \/ Close
  \/ GetLevelCount
  \/ GetLevelTiles
  \/ GetLevelDimensions
  \/ GetTileCount
  \/ GetL0Dimensions
  \/ GetTileInfo
  \/ GetPlaneCount
  \/ GetMicronPerPixel
  \/ GetTile

Spec == Init /\ [][Next]_vars

TypeOK ==
  /\ pc \in {"closed", "open", "crashed"}
  /\ dpz.dz_levels \in Nat
  /\ out.op \in {"none", "deepzoom_open", "deepzoom_get_level_count",
                 "deepzoom_get_level_tiles", "deepzoom_get_level_dimensions",
                 "deepzoom_get_tile_count", "deepzoom_get_l0_dimensions",
                 "deepzoom_get_tile_info", "deepzoom_get_tile",
                 "deepzoom_get_plane_count", "deepzoom_get_micron_per_pixel"}

---------------------------------------------------------------------------
(* Properties *)

\* the object was built by the full deepzoom_open path
Healthy == pc = "open" /\ dpz.osr.state = "ok"

L0W == At(dpz.osr.levels, 0).w
L0H == At(dpz.osr.levels, 0).h

\* the smallest k with 2^k >= m
CeilLog2(m) == CHOOSE k \in 0..20 : Pow2(k) >= m /\ \A j \in 0..(k - 1) : Pow2(j) < m

\* the last call was deepzoom_get_tile_info on a tile inside the level
InRangeCall ==
  /\ out.op = "deepzoom_get_tile_info"
  /\ out.level \in 0..(dpz.dz_levels - 1)
  /\ out.col \in 0..(At(dpz.t_dimensions, out.level).x - 1)
  /\ out.row \in 0..(At(dpz.t_dimensions, out.level).y - 1)

\* C1: for every level 0 size W, H >= 1 the DeepZoom level count is
\* 1 + ceil(log2(max(W, H))), both as stored by deepzoom_open and as
\* returned by deepzoom_get_level_count; 1024 x 512 gives 11 and 1 x 1
\* gives 1.
C1_LevelCount ==
  Healthy =>
    /\ dpz.dz_levels = 1 + CeilLog2(Max(L0W, L0H))
    /\ out.op = "deepzoom_get_level_count" => out.n = 1 + CeilLog2(Max(L0W, L0H))
    /\ (L0W = 1024 /\ L0H = 512) => dpz.dz_levels = 11
    /\ (L0W = 1 /\ L0H = 1) => dpz.dz_levels = 1

C1_Witness ==
  /\ Healthy
  /\ out.op = "deepzoom_get_level_count"
  /\ L0W = 4 /\ L0H = 3
  /\ out.n = 3

\* C2: after deepzoom_open z_dims[N-1] is the level 0 size, scaled by the
\* bounds when limit_bounds is set and the bounds properties are present,
\* and every z_dims[i] below it is the ceiling halving of z_dims[i+1].
C2_LevelDimensions ==
  Healthy =>
    LET N == dpz.dz_levels
        top == IF dpz.limit_bounds /\ dpz.osr.bw # Absent /\ dpz.osr.bh # Absent
               THEN [x |-> CeilDiv(L0W * dpz.osr.bw, L0W),
                     y |-> CeilDiv(L0H * dpz.osr.bh, L0H)]
               ELSE [x |-> L0W, y |-> L0H]
    IN /\ At(dpz.z_dimensions, N - 1) = top
       /\ \A i \in 0..(N - 2) :
            At(dpz.z_dimensions, i) =
              [x |-> Max(1, CeilDiv(At(dpz.z_dimensions, i + 1).x, 2)),
               y |-> Max(1, CeilDiv(At(dpz.z_dimensions, i + 1).y, 2))]

\* t is ceil(z / tile_size): the least count of tiles that covers z pixels
Covers(t, z, tile_size) == (t - 1) * tile_size < z /\ z <= t * tile_size

RECURSIVE SumOfProducts(_)
SumOfProducts(dims) ==
  IF dims = << >> THEN 0
  ELSE Head(dims).x * Head(dims).y + SumOfProducts(Tail(dims))

\* C3: for every DeepZoom level and tile_size >= 1 the tile count that
\* deepzoom_get_level_tiles reports is ceil(z_dims / tile_size) per axis,
\* and deepzoom_get_tile_count returns the sum of tiles_x * tiles_y over
\* the levels.
C3_LevelTiles ==
  Healthy =>
    /\ Len(dpz.t_dimensions) = dpz.dz_levels
    /\ \A i \in 0..(dpz.dz_levels - 1) :
         /\ Covers(At(dpz.t_dimensions, i).x, At(dpz.z_dimensions, i).x,
                   dpz.z_t_downsample)
         /\ Covers(At(dpz.t_dimensions, i).y, At(dpz.z_dimensions, i).y,
                   dpz.z_t_downsample)
    /\ out.op = "deepzoom_get_level_tiles" => out.dims = dpz.t_dimensions
    /\ out.op = "deepzoom_get_tile_count" => out.n = SumOfProducts(dpz.t_dimensions)
    /\ (L0W = 1024 /\ L0H = 512 /\ dpz.z_t_downsample = 254)
         => At(dpz.t_dimensions, 10) = [x |-> 5, y |-> 3]

C3_Witness ==
  /\ Healthy
  /\ out.op = "deepzoom_get_tile_count"
  /\ L0W = 4 /\ L0H = 3
  /\ dpz.z_t_downsample = 2
  /\ out.n = 4 + 1 + 1

\* C4: for every in-range tile the DeepZoom space tile size is, per axis,
\* min(tile_size, z_dims[level] - tile_size * idx) + overlap_tl + overlap_br
\* with overlap_tl = overlap if idx > 0 else 0 and overlap_br = overlap if
\* idx < tiles - 1 else 0.
C4_TileSize ==
  (Healthy /\ InRangeCall) =>
    LET ScaleOf(idx, tiles, zdim) ==
          Min(dpz.z_t_downsample, zdim - dpz.z_t_downsample * idx)
            + (IF idx > 0 THEN dpz.z_overlap ELSE 0)
            + (IF idx < tiles - 1 THEN dpz.z_overlap ELSE 0)
    IN /\ out.info.scalew = ScaleOf(out.col, At(dpz.t_dimensions, out.level).x,
                                    At(dpz.z_dimensions, out.level).x)
       /\ out.info.scaleh = ScaleOf(out.row, At(dpz.t_dimensions, out.level).y,
                                    At(dpz.z_dimensions, out.level).y)

\* C5: for every in-range tile the level 0 location is, per axis,
\* floor(slide_location * l0_l_downsample[best] + bounds_offset) where
\* slide_location = (tile_size * idx - overlap_tl) * l_z_downsample[level]
\* keeps its fraction (overlap_tl is the top left overlap the tile has).
C5_Level0Location ==
  (Healthy /\ InRangeCall) =>
    LET lz == At(dpz.l_z_downsamples, out.level)
        ds == At(dpz.l0_l_downsamples, out.info.lvl)
        LocationOf(idx, off) ==
          FloorDiv((dpz.z_t_downsample * idx - OverlapTopLeft(dpz, idx)) * lz.n * ds.n
                     + off * lz.d * ds.d,
                   lz.d * ds.d)
    IN /\ out.info.x = LocationOf(out.col, dpz.l0_offset.x)
       /\ out.info.y = LocationOf(out.row, dpz.l0_offset.y)

\* C6: deepzoom_get_tile_info with a level, column or row outside the
\* level's tile extent writes -1 to all seven outputs, and no call reads an
\* array outside its elements.
C6_OutOfRange ==
  out.op = "deepzoom_get_tile_info" =>
    /\ pc # "crashed"
    /\ ~InRangeCall => out.info = InfoFail

C6_Witness ==
  /\ Healthy
  /\ out.op = "deepzoom_get_tile_info"
  /\ out.level \in 0..(dpz.dz_levels - 1)
  /\ out.col = At(dpz.t_dimensions, out.level).x
  /\ out.row = 0
  /\ out.info = InfoFail

\* C7: for every in-range tile of an object opened on a healthy slide
\* deepzoom_get_tile_info returns out-w > 0, out-h > 0, x >= 0, y >= 0 and
\* 0 <= slide-level < slide level count.
C7_TileInfoSane ==
  (Healthy /\ InRangeCall) =>
    /\ out.info.outw > 0
    /\ out.info.outh > 0
    /\ out.info.x >= 0
    /\ out.info.y >= 0
    /\ out.info.lvl >= 0
    /\ out.info.lvl < Len(dpz.osr.levels)

\* C8: deepzoom_open returns NULL when openslide_open returned a null
\* slide handle, without reading through it.
C8_OpenUnrecognized ==
  (out.op = "deepzoom_open" /\ dpz.osr.state = "null") =>
    /\ pc # "crashed"
    /\ out.ret = "NULL"

\* C9: deepzoom_open on a slide in error state returns an object whose
\* error cell holds the error message.
C9_OpenErrorState ==
  (out.op = "deepzoom_open" /\ dpz.osr.state = "error") =>
    /\ pc = "open"
    /\ dpz.error # NoError

\* C10: on an object returned in error state every query reports its
\* error value and reads no unset array: (-1, -1) from
\* deepzoom_get_l0_dimensions, -1 everywhere from deepzoom_get_tile_info,
\* NULL from deepzoom_get_level_tiles and deepzoom_get_level_dimensions, 0
\* from deepzoom_get_tile_count.
C10_ErrorStateQueries ==
  (dpz.osr.state = "error" /\ out.op # "deepzoom_open") =>
    /\ pc # "crashed"
    /\ out.op = "deepzoom_get_l0_dimensions" => (out.w = -1 /\ out.h = -1)
    /\ out.op = "deepzoom_get_tile_info" => out.info = InfoFail
    /\ out.op = "deepzoom_get_level_tiles" => out.dims = NULL
    /\ out.op = "deepzoom_get_level_dimensions" => out.dims = NULL
    /\ out.op = "deepzoom_get_tile_count" => out.n = 0

\* C29: for every in-range tile the slide-level rectangle that
\* deepzoom_get_tile_info reports lies inside the chosen slide level:
\* per axis ceil(slide_location) + out <= l_dimensions[slide level] and
\* out <= ceil(scale * l_z_downsample[level]); and the chosen slide level's
\* downsample does not exceed the DeepZoom level's, l_z_downsample >= 1.
C29_TileInsideLevel ==
  (Healthy /\ InRangeCall) =>
    LET lz == At(dpz.l_z_downsamples, out.level)
        l == At(dpz.l_dimensions, out.info.lvl)
        Location(idx) ==
          RCeil(RMulInt(lz, dpz.z_t_downsample * idx - OverlapTopLeft(dpz, idx)))
    IN /\ Location(out.col) + out.info.outw <= l.x
       /\ Location(out.row) + out.info.outh <= l.y
       /\ out.info.outw <= RCeil(RMulInt(lz, out.info.scalew))
       /\ out.info.outh <= RCeil(RMulInt(lz, out.info.scaleh))
       /\ lz.n >= lz.d

\* a tile at the right edge of a level read from a smaller slide level
C29_Witness ==
  /\ Healthy
  /\ InRangeCall
  /\ out.info.lvl = 1
  /\ out.col = At(dpz.t_dimensions, out.level).x - 1
  /\ out.col > 0
  /\ out.info.outw > 0

\* the queries of the DeepZoom object
QueryOps ==
  {"deepzoom_get_level_count", "deepzoom_get_plane_count",
   "deepzoom_get_level_tiles", "deepzoom_get_level_dimensions",
   "deepzoom_get_tile_count", "deepzoom_get_l0_dimensions",
   "deepzoom_get_tile_info", "deepzoom_get_micron_per_pixel"}

---------------------------------------------------------------------------
(* deepzoom_get_tile *)

\* the last call was deepzoom_get_tile on a tile inside the level
InRangeTileCall ==
  /\ out.op = "deepzoom_get_tile"
  /\ out.level \in 0..(dpz.dz_levels - 1)
  /\ out.col \in 0..(At(dpz.t_dimensions, out.level).x - 1)
  /\ out.row \in 0..(At(dpz.t_dimensions, out.level).y - 1)

\* C12: after deepzoom_get_tile returns for an in-range tile on a healthy
\* slide, the caller's dest buffer holds the pixels of the region
\* (x, y, slide level, out-w, out-h) that deepzoom_get_tile_info reports for
\* the tile, and no buffer allocated inside the call is left unreachable.
C12_TileBuffer ==
  (Healthy /\ InRangeTileCall) =>
    LET i == deepzoom_get_tile_info(dpz, out.level, out.col, out.row).info
    IN /\ mem.dest = Buffer(TRUE, i.x, i.y, 0, i.lvl, i.outw, i.outh)
       /\ mem.unreachable = 0

---------------------------------------------------------------------------
(* _deepzoom_propagate_error called from several threads on one object.
   Every statement of the function is one step of the calling thread. *)

Messages == { "read failed", "bad tile" }

\* a store that does not compare first
g_atomic_pointer_exchange(cur, old, new) == [ok |-> cur = old, val |-> new]

\* g_atomic_pointer_compare_and_exchange(&dpz->error, NULL, msg), one atomic
\* step: the cell takes new only when it holds old
g_atomic_pointer_compare_and_exchange(cur, old, new) ==
  IF cur = old THEN [ok |-> TRUE, val |-> new] ELSE [ok |-> FALSE, val |-> cur]

\* g_return_if_fail(err): a NULL err returns at once, or with the checks
\* compiled out err->message is read through NULL
PropagateEnter(t) ==
  /\ thr[t].pc = "idle"
  /\ ~cell.closed
  /\ \E e \in Messages \cup { NoError } :
       IF e = NoError
       THEN \E p \in { "done", "crashed" } : thr' = [thr EXCEPT ![t].pc = p]
       ELSE thr' = [thr EXCEPT ![t].pc = "strdup", ![t].err = e]
  /\ UNCHANGED cell
  /\ UNCHANGED nonerr

\* gchar *msg = g_strdup(err->message)
PropagateStrdup(t) ==
  /\ thr[t].pc = "strdup"
  /\ thr' = [thr EXCEPT ![t].pc = "cas"]
  /\ UNCHANGED cell
  /\ UNCHANGED nonerr

\* if (!g_atomic_pointer_compare_and_exchange(&dpz->error, NULL, msg))
PropagateCas(t) ==
  /\ thr[t].pc = "cas"
  /\ LET r == g_atomic_pointer_compare_and_exchange(cell.error, 0, t)
     IN /\ cell' = [cell EXCEPT !.error = r.val]
        /\ thr' = [thr EXCEPT ![t].pc = IF r.ok THEN "error_free" ELSE "free"]
  /\ UNCHANGED nonerr

\* g_free(msg)
PropagateFree(t) ==
  /\ thr[t].pc = "free"
  /\ thr' = [thr EXCEPT ![t].pc = "error_free", ![t].msg_frees = @ + 1]
  /\ UNCHANGED cell
  /\ UNCHANGED nonerr

\* g_error_free(err)
PropagateErrorFree(t) ==
  /\ thr[t].pc = "error_free"
  /\ thr' = [thr EXCEPT ![t].pc = "done", ![t].err_frees = @ + 1]
  /\ UNCHANGED cell
  /\ UNCHANGED nonerr

\* deepzoom_close, when no call is in flight: g_free(dpz->error)
CloseCell ==
  /\ ~cell.closed
  /\ \A t \in Threads : thr[t].pc \in { "idle", "done" }
  /\ cell' = [cell EXCEPT !.closed = TRUE]
  /\ thr' = IF cell.error = 0 THEN thr
            ELSE [thr EXCEPT ![cell.error].msg_frees = @ + 1]
  /\ UNCHANGED nonerr

NextErr ==
  \/ \E t \in Threads : PropagateEnter(t)
  \/ \E t \in Threads : PropagateStrdup(t)
  \/ \E t \in Threads : PropagateCas(t)
  \/ \E t \in Threads : PropagateFree(t)
  \/ \E t \in Threads : PropagateErrorFree(t)
  \/ CloseCell

SpecErr == Init /\ [][NextErr]_vars

\* the message the cell holds
StoredMessage == IF cell.error = 0 THEN NoError ELSE thr[cell.error].err

\* thread t made a copy of its message and its compare-and-exchange is over
PastCas(t) == thr[t].pc \in { "free", "error_free", "done" } /\ thr[t].err # NoError

\* C11: under any interleaving of concurrent _deepzoom_propagate_error calls
\* with non-null errors the error cell is first-writer-wins: exactly one
\* message is stored, once the cell is non-NULL it never changes and never
\* goes back to NULL until close, and the message copy of every losing
\* writer and every GError passed in is freed exactly once.
C11_FirstWriterWins ==
  /\ [](\A t \in Threads :
          /\ PastCas(t) => cell.error # 0
          /\ (cell.error = t /\ ~cell.closed) => thr[t].msg_frees = 0
          /\ thr[t].msg_frees <= 1 /\ thr[t].err_frees <= 1
          /\ (thr[t].pc = "done" /\ thr[t].err # NoError) =>
                /\ thr[t].err_frees = 1
                /\ cell.error # t => thr[t].msg_frees = 1)
  /\ [][cell.error # 0 => cell'.error = cell.error]_vars

\* both threads reported different errors, the second one first
C11_Witness ==
  /\ \A t \in Threads : thr[t].pc = "done" /\ thr[t].err # NoError
  /\ thr[1].err # thr[2].err
  /\ cell.error = 2
  /\ StoredMessage = thr[2].err
  /\ ~cell.closed

---------------------------------------------------------------------------
(* openslide-vendor-olympus.c: the ETS backend *)

PIXEL_TYPE_UINT8 == 2
PIXEL_TYPE_INT32 == 4
CHANNEL_GRAYSCALE == 1
CHANNEL_RGB == 3
COLORSPACE_FLUORESCENCE == 1
COLORSPACE_BRIGHTFIELD == 4
FORMAT_JPEG == 2
FORMAT_JP2 == 3
SisHeaderSize == 64
EtsHeaderSize == 228

\* the conditions sis_header_read puts in g_assert
SisChecks(eh) ==
  /\ eh.sisMagic
  /\ eh.headerSize = SisHeaderSize
  /\ eh.Ndim = 4 \/ eh.Ndim = 6
  /\ eh.etsoffset = SisHeaderSize
  /\ eh.etsnbytes = EtsHeaderSize

\* the conditions ets_header_read puts in g_assert
EtsChecks(eh) ==
  /\ eh.etsMagic
  /\ eh.pixelType = PIXEL_TYPE_UINT8 \/ eh.pixelType = PIXEL_TYPE_INT32
  /\ eh.sizeC = CHANNEL_GRAYSCALE \/ eh.sizeC = CHANNEL_RGB
  /\ eh.colorspace = COLORSPACE_BRIGHTFIELD \/ eh.colorspace = COLORSPACE_FLUORESCENCE
  /\ eh.compression = FORMAT_JPEG \/ eh.compression = FORMAT_JP2
  /\ eh.dimz = 1

\* g_assert aborts the process when its condition is false; both readers
\* end in return true and have no other return
sis_header_read(eh) == IF ~SisChecks(eh) THEN "abort" ELSE "true"

ets_header_read(eh) == IF ~EtsChecks(eh) THEN "abort" ELSE "true"

\* struct tile: coord[0], coord[1], coord[2] and level
Tile(x, y, c, level) == [x |-> x, y |-> y, c |-> c, level |-> level]

\* return (*(uint32_t*)b - *(uint32_t*)a): the uint32_t difference
\* converted to int is b - a for operands below 2^31, as all tile
\* coordinates here are; b comes before a when b is larger
ascending_compare(a, b) == b - a

RECURSIVE qsort_uint32(_)
\* qsort(arr, n, sizeof(uint32_t), ascending_compare): the first element
\* goes behind the elements of the sorted rest that the comparison does
\* not place after it
qsort_uint32(arr) ==
  IF arr = << >> THEN << >>
  ELSE LET rest == qsort_uint32(Tail(arr))
           k == Cardinality({j \in 1..Len(rest) :
                               ascending_compare(Head(arr), rest[j]) >= 0})
       IN SubSeq(rest, 1, k) \o << Head(arr) >> \o SubSeq(rest, k + 1, Len(rest))

RECURSIVE TileScan(_, _, _, _)
\* the first loop over the tiles, from tile i on
TileScan(tiles, i, level_count, channels) ==
  IF i < Len(tiles)
  THEN LET t == At(tiles, i)
       IN TileScan(tiles, i + 1,
                   IF t.level > level_count THEN t.level ELSE level_count,
                   IF t.c > channels THEN t.c ELSE channels)
  ELSE [level_count |-> level_count, channels |-> channels]

RECURSIVE TileMax(_, _, _, _)
\* the second loop over the tiles: the largest coord[0] and coord[1] of
\* every level
TileMax(tiles, i, tilexmax, tileymax) ==
  IF i < Len(tiles)
  THEN LET t == At(tiles, i)
           lvl == t.level + 1
       IN TileMax(tiles, i + 1,
                  [tilexmax EXCEPT ![lvl] = IF t.x > @ THEN t.x ELSE @],
                  [tileymax EXCEPT ![lvl] = IF t.y > @ THEN t.y ELSE @])
  ELSE [x |-> tilexmax, y |-> tileymax]

\* struct level with the size of its grid
EtsLevel(w, h, tile_w, tile_h, tile_ch, tile_across, tile_down, downsample, image_format) ==
  [w |-> w, h |-> h, tile_w |-> tile_w, tile_h |-> tile_h, tile_ch |-> tile_ch,
   tile_across |-> tile_across, tile_down |-> tile_down,
   downsample |-> downsample, image_format |-> image_format]

RECURSIVE EtsLevelLoop(_, _, _, _, _, _, _, _)
\* the level creation loop from level i on; image_width and image_height
\* are uint32_t, so image_width / 2 is the integer quotient and ceil is
\* applied to an integer; the products stay far below 2^32
EtsLevelLoop(eh, channels, level_count, tilexmax, tileymax, i, image_width, image_height) ==
  IF i < level_count
  THEN LET iw == IF i = 0 THEN eh.dimx * At(tilexmax, i)
                 ELSE image_width \div 2
           ih == IF i = 0 THEN eh.dimy * At(tileymax, i)
                 ELSE image_height \div 2
           tile_w == eh.dimx
           tile_h == eh.dimy
           tile_across == (iw + tile_w - 1) \div tile_w
           tile_down == (ih + tile_h - 1) \div tile_h
       IN << EtsLevel(iw, ih, tile_w, tile_h, channels, tile_across, tile_down,
                      Pow2(i), eh.compression) >>
            \o EtsLevelLoop(eh, channels, level_count, tilexmax, tileymax,
                            i + 1, iw, ih)
  ELSE << >>

RECURSIVE Zeros(_)
\* g_new0(uint32_t, n)
Zeros(n) == IF n = 0 THEN << >> ELSE << 0 >> \o Zeros(n - 1)

\* the bytes the fread calls of ets_header_read take: the magic, nine
\* uint32_t fields, skip_bytes[17], sizeC background colours of one byte
\* (uint8) or four (int32), 10 - sizeC words of skip_bytes2, skip_bytes3 and
\* usePyramid
ets_header_bytes(eh) ==
  4 + 9 * 4 + 17 * 4
    + (IF eh.pixelType = PIXEL_TYPE_UINT8 THEN eh.sizeC
       ELSE IF eh.pixelType = PIXEL_TYPE_INT32 THEN 4 * eh.sizeC
       ELSE 0)
    + 4 * (10 - eh.sizeC) + 4 + 4

\* n blocks of one kind, numbered as the levels they belong to
Allocs(kind, n) == { << kind, i >> : i \in 0..(n - 1) }

\* openOk and seekOk are the outcomes of _openslide_fopen and fseeko.  The
\* two header structs are never freed; FAIL frees the tiles and the levels.
olympus_open_ets(openOk, eh, seekOk, tiles) ==
  LET in == [NoBackend EXCEPT !.op = "olympus_open_ets", !.header = eh,
                              !.tiles = tiles]
      headers == Allocs("sis_header", 1) \cup Allocs("ets_header", 1)
  IN IF ~openOk
     THEN [in EXCEPT !.result = "false", !.err = "Couldn't open file"]
     ELSE IF sis_header_read(eh) = "abort" \/ ets_header_read(eh) = "abort"
     THEN [in EXCEPT !.result = "abort"]
     ELSE IF ~seekOk
     THEN [in EXCEPT !.result = "false", !.err = "Couldn't seek to JPEG start",
                     !.ets_bytes = ets_header_bytes(eh), !.live = headers]
     ELSE LET scan == TileScan(tiles, 0, 1, 0)
              level_count == scan.level_count + 1
              channels == IF scan.channels # 0 THEN scan.channels + 1
                          ELSE scan.channels
              max == TileMax(tiles, 0, Zeros(level_count), Zeros(level_count))
              tilexmax == qsort_uint32(max.x)
              tileymax == qsort_uint32(max.y)
          IN [in EXCEPT
                !.result = "true",
                !.level_count = level_count,
                !.plane_count = IF channels = 0 THEN 1 ELSE channels,
                !.levels = EtsLevelLoop(eh, channels, level_count, tilexmax,
                                        tileymax, 0, 0, 0),
                !.ets_bytes = ets_header_bytes(eh),
                !.ops = "olympus_ets_ops",
                !.live = headers \cup Allocs("tiles", 1) \cup Allocs("levels", 1)
                           \cup Allocs("level", level_count)
                           \cup Allocs("grid", level_count)
                           \cup Allocs("ops_data", 1)]

\* a header every check accepts
BaseHeader(dimx, dimy) ==
  Header(TRUE, SisHeaderSize, 4, SisHeaderSize, EtsHeaderSize, TRUE,
         PIXEL_TYPE_UINT8, CHANNEL_RGB, COLORSPACE_BRIGHTFIELD, FORMAT_JPEG,
         dimx, dimy, 1)

\* eh and the headers that differ from it in one field
HeaderVariants(eh) ==
  { eh,
    [eh EXCEPT !.sisMagic = FALSE], [eh EXCEPT !.headerSize = 63],
    [eh EXCEPT !.Ndim = 6], [eh EXCEPT !.Ndim = 5],
    [eh EXCEPT !.etsoffset = 0], [eh EXCEPT !.etsnbytes = 0],
    [eh EXCEPT !.etsMagic = FALSE],
    [eh EXCEPT !.pixelType = PIXEL_TYPE_INT32], [eh EXCEPT !.pixelType = 3],
    [eh EXCEPT !.sizeC = CHANNEL_GRAYSCALE], [eh EXCEPT !.sizeC = 2],
    [eh EXCEPT !.colorspace = COLORSPACE_FLUORESCENCE],
    [eh EXCEPT !.colorspace = 0],
    [eh EXCEPT !.compression = FORMAT_JP2], [eh EXCEPT !.compression = 0],
    [eh EXCEPT !.dimz = 2] }

Headers ==
  UNION { HeaderVariants(BaseHeader(dimx, dimy)) :
            dimx \in 1..MaxTileDim, dimy \in 1..MaxTileDim }

\* the tiles of one level with coordinates up to (mx, my, cm), x fastest
GridTiles(level, mx, my, cm) ==
  [k \in 1..((mx + 1) * (my + 1) * (cm + 1)) |->
     Tile((k - 1) % (mx + 1),
          ((k - 1) \div (mx + 1)) % (my + 1),
          (k - 1) \div ((mx + 1) * (my + 1)),
          level)]

RECURSIVE DirOf(_, _, _, _)
\* the tile directory with levels 0..n-1, level L with tile coordinates up
\* to m[L + 1], written lowest level first or (rev) highest level first
DirOf(m, cm, rev, i) ==
  IF i < Len(m)
  THEN LET level == IF rev THEN Len(m) - 1 - i ELSE i
       IN GridTiles(level, At(m, level)[1], At(m, level)[2], cm)
            \o DirOf(m, cm, rev, i + 1)
  ELSE << >>

TileDirs ==
  { << >> } \cup
  UNION { { DirOf(m, cm, rev, 0) :
              m \in [1..n -> (0..MaxTileIdx) \X (0..MaxTileIdx)],
              cm \in { 0, 2 }, rev \in BOOLEAN } :
          n \in 1..MaxEtsLevels }

OpenEts ==
  /\ backend = NoBackend
  /\ \E openOk \in BOOLEAN :
       IF ~openOk
       THEN backend' = olympus_open_ets(FALSE, NoHeader, TRUE, << >>)
       ELSE \E eh \in Headers :
              IF ~(SisChecks(eh) /\ EtsChecks(eh))
              THEN backend' = olympus_open_ets(TRUE, eh, TRUE, << >>)
              ELSE \E seekOk \in BOOLEAN :
                     IF ~seekOk
                     THEN backend' = olympus_open_ets(TRUE, eh, FALSE, << >>)
                     ELSE \E tiles \in TileDirs :
                            backend' = olympus_open_ets(TRUE, eh, TRUE, tiles)
  /\ UNCHANGED nonbackend

\* openslide_close after a backend opened the slide, or the end of the
\* process: destroy frees the levels
BackendClose ==
  /\ backend # NoBackend
  /\ backend' = NoBackend
  /\ UNCHANGED nonbackend

\* a TIFF directory: tiled or not, ImageWidth and ImageLength
Dir(tiled, w, h) == [tiled |-> tiled, w |-> w, h |-> h]

\* struct _openslide_tiff_level of one channel
TiffLevel(image_w, image_h) == [image_w |-> image_w, image_h |-> image_h]

\* struct level of the TIFF backend: base.w, base.h and tiffl[]
TifLevel(w, h, tiffl) == [w |-> w, h |-> h, tiffl |-> tiffl]

\* -1 when la is wider than lb, 1 when it is narrower
width_compare_ascending(la, lb) ==
  IF At(la.tiffl, 0).image_w > At(lb.tiffl, 0).image_w THEN 1
  ELSE IF At(la.tiffl, 0).image_w = At(lb.tiffl, 0).image_w THEN 0
  ELSE -1

width_compare(la, lb) ==
  IF At(la.tiffl, 0).image_w > At(lb.tiffl, 0).image_w THEN -1
  ELSE IF At(la.tiffl, 0).image_w = At(lb.tiffl, 0).image_w THEN 0
  ELSE 1

RECURSIVE g_ptr_array_sort(_)
\* g_ptr_array_sort(level_array, width_compare)
g_ptr_array_sort(level_array) ==
  IF level_array = << >> THEN << >>
  ELSE LET rest == g_ptr_array_sort(Tail(level_array))
           k == Cardinality({j \in 1..Len(rest) :
                               width_compare(Head(level_array), rest[j]) >= 0})
       IN SubSeq(rest, 1, k) \o << Head(level_array) >>
            \o SubSeq(rest, k + 1, Len(rest))

RECURSIVE TifChannelLoop(_, _, _, _, _, _)
\* the loop over the channels of one level from channel j on; cur is the
\* current TIFF directory and l the level built so far.  A directory that
\* is not tiled is skipped without reading the next one.
\* _openslide_tiff_level_init fills tiffl[j] and the base size of the
\* level; TIFFReadDirectory stays on the last directory of the file.
TifChannelLoop(dirs, initOk, channels, j, cur, l) ==
  IF j < channels
  THEN LET d == At(dirs, cur)
       IN IF ~d.tiled
          THEN TifChannelLoop(dirs, initOk, channels, j + 1, cur, l)
          ELSE IF ~initOk
          THEN [end |-> "fail", cur |-> cur, l |-> l]
          ELSE IF j > 0 /\ (d.w # At(l.tiffl, j - 1).image_w
                            \/ d.h # At(l.tiffl, j - 1).image_h)
          THEN [end |-> "abort", cur |-> cur, l |-> l]
          ELSE TifChannelLoop(dirs, initOk, channels, j + 1,
                              IF cur + 1 < Len(dirs) THEN cur + 1 ELSE cur,
                              TifLevel(d.w, d.h,
                                       [l.tiffl EXCEPT ![j + 1] =
                                          TiffLevel(d.w, d.h)]))
  ELSE [end |-> "ok", cur |-> cur, l |-> l]

RECURSIVE ZeroTiffl(_)
\* g_new0(struct _openslide_tiff_level, channels)
ZeroTiffl(n) == IF n = 0 THEN << >> ELSE << TiffLevel(0, 0) >> \o ZeroTiffl(n - 1)

RECURSIVE TifLevelLoop(_, _, _, _, _, _, _)
\* the loop over the levels of the image description from level i on
TifLevelLoop(dirs, initOk, levels, channels, i, cur, level_array) ==
  IF i < levels
  THEN LET r == TifChannelLoop(dirs, initOk, channels, 0, cur,
                               TifLevel(0, 0, ZeroTiffl(channels)))
       IN IF r.end # "ok" THEN [end |-> r.end, level_array |-> level_array]
          ELSE TifLevelLoop(dirs, initOk, levels, channels, i + 1, r.cur,
                            Append(level_array, r.l))
  ELSE [end |-> "ok", level_array |-> level_array]

\* tiffOk, hasDesc, xmlOk and initOk are the outcomes of
\* _openslide_tiffcache_get, TIFFGetField(TIFFTAG_IMAGEDESCRIPTION),
\* parse_xml_description and _openslide_tiff_level_init; levels and
\* channels come from the image description.  The return after a missing
\* description skips FAIL: the handle, the handle cache and the level array
\* stay as they are.  FAIL puts the handle back, destroys the cache and
\* frees the levels and grids in the array but no tiffl array, and neither
\* path frees the image description.
olympus_open_tif(tiffOk, hasDesc, xmlOk, initOk, levels, channels, dirs) ==
  LET in == [NoBackend EXCEPT !.op = "olympus_open_tif", !.dirs = dirs]
  IN IF ~tiffOk
     THEN [in EXCEPT !.result = "false", !.err = "Couldn't open TIFF"]
     ELSE IF ~hasDesc
     THEN [in EXCEPT !.result = "false", !.handles = 1,
                     !.live = Allocs("tiffcache", 1) \cup Allocs("level_array", 1)]
     ELSE IF ~xmlOk
     THEN [in EXCEPT !.result = "false", !.err = "Couldn't parse XML"]
     ELSE LET r == TifLevelLoop(dirs, initOk, levels, channels, 0, 0, << >>)
          IN IF r.end = "abort" THEN [in EXCEPT !.result = "abort"]
             ELSE IF r.end = "fail"
             THEN [in EXCEPT !.result = "false", !.err = "Couldn't read TIFF level",
                             !.live = Allocs("image_desc", 1)
                                        \cup Allocs("tiffl", Len(r.level_array) + 1)]
             ELSE [in EXCEPT !.result = "true",
                             !.level_count = Len(r.level_array),
                             !.plane_count = channels,
                             !.levels = g_ptr_array_sort(r.level_array),
                             !.ops = "ome_tiff_ops",
                             !.live = Allocs("image_desc", 1)
                                        \cup Allocs("tiffcache", 1)
                                        \cup Allocs("levels", 1)
                                        \cup Allocs("level", Len(r.level_array))
                                        \cup Allocs("grid", Len(r.level_array))
                                        \cup Allocs("tiffl", Len(r.level_array))
                                        \cup Allocs("ops_data", 1)]

\* a directory of any width up to MaxTifWidth, as high as wide, or one that
\* is not tiled
TifDirs ==
  { Dir(FALSE, 1, 1) } \cup { Dir(TRUE, w, w) : w \in 1..MaxTifWidth }

TifFiles == UNION { [1..n -> TifDirs] : n \in 1..MaxTifDirs }

OpenTif ==
  /\ backend = NoBackend
  /\ \E tiffOk \in BOOLEAN, hasDesc \in BOOLEAN, xmlOk \in BOOLEAN :
       IF ~(tiffOk /\ hasDesc /\ xmlOk)
       THEN backend' = olympus_open_tif(tiffOk, hasDesc, xmlOk, TRUE, 0, 0, << >>)
       ELSE \E initOk \in BOOLEAN, levels \in 1..MaxTifLevels,
               channels \in 1..MaxChannels, dirs \in TifFiles :
              backend' = olympus_open_tif(TRUE, TRUE, TRUE, initOk, levels,
                                          channels, dirs)
  /\ UNCHANGED nonbackend

\* the handle cache by the number of handles that are out: get hands one
\* out unless the file cannot be opened, put takes back a handle that is
\* not NULL
_openslide_tiffcache_get(handles, ok) == IF ok THEN handles + 1 ELSE handles

_openslide_tiffcache_put(handles, tiff) == IF tiff THEN handles - 1 ELSE handles

\* getOk is the outcome of _openslide_tiffcache_get and paintOk that of
\* _openslide_grid_paint_region
paint_tif_region(b, getOk, paintOk) ==
  LET got == _openslide_tiffcache_get(b.handles, getOk)
  IN IF ~getOk THEN [b EXCEPT !.paint = "false", !.handles = got]
     ELSE [b EXCEPT !.paint = IF paintOk THEN "true" ELSE "false",
                    !.handles = _openslide_tiffcache_put(got, TRUE)]

PaintTifRegion ==
  /\ backend.result = "true"
  /\ backend.ops = "ome_tiff_ops"
  /\ backend.paint = "none"
  /\ \E getOk \in BOOLEAN, paintOk \in BOOLEAN :
       backend' = paint_tif_region(backend, getOk, paintOk)
  /\ UNCHANGED nonbackend

\* the grids, the levels and the level array
destroy_ets(b) ==
  [b EXCEPT !.result = "destroyed",
            !.live = b.live \ (Allocs("grid", b.level_count)
                                 \cup Allocs("level", b.level_count)
                                 \cup Allocs("levels", 1))]

\* the handle cache, the ops data, the grids, the levels and the level array
destroy_tif(b) ==
  [b EXCEPT !.result = "destroyed",
            !.live = b.live \ (Allocs("tiffcache", 1)
                                 \cup Allocs("ops_data", 1)
                                 \cup Allocs("grid", b.level_count)
                                 \cup Allocs("level", b.level_count)
                                 \cup Allocs("levels", 1))]

\* osr->ops->destroy(osr) of openslide_close
Destroy ==
  /\ backend.result = "true"
  /\ backend' = IF backend.ops = "olympus_ets_ops" THEN destroy_ets(backend)
                ELSE destroy_tif(backend)
  /\ UNCHANGED nonbackend

\* kind is the suffix of filename ("ets", "tif" or anything else), parentOk
\* whether the file _get_parent_image_file names exists, tiffOk the outcome
\* of _openslide_tiffcache_get, step the first of the TIFF steps that fails
\* ("ok" when none does), fmt what _get_related_image_file returns and
\* inner what the backend that is called returns.  The handle is put back
\* only after the backend was called; FAIL returns without putting it
\* back.  The handle cache made here and the tifflike made for an .ets
\* file are never destroyed.
olympus_open_vsi(kind, parentOk, tiffOk, step, fmt, inner) ==
  LET in == [NoBackend EXCEPT !.op = "olympus_open_vsi"]
      direct == kind \in {"ets", "tif"}
      tc == Allocs("image_tiffcache", 1)
      got == _openslide_tiffcache_get(0, tiffOk)
  IN IF direct /\ ~parentOk THEN [in EXCEPT !.result = "false"]
     ELSE IF ~tiffOk
     THEN [in EXCEPT !.result = "false", !.err = "Couldn't open TIFF",
                     !.handles = got, !.live = tc]
     ELSE IF step # "ok"
     THEN [in EXCEPT !.result = "false", !.err = step, !.handles = got,
                     !.live = tc]
     ELSE IF ~direct /\ fmt = "crash" THEN [in EXCEPT !.result = "crash"]
     ELSE IF ~direct /\ fmt = "UNKNOWN"
     THEN [in EXCEPT !.result = "false",
                     !.err = "Corresponding slidedat file does not exist",
                     !.handles = got, !.live = tc]
     ELSE IF inner.result = "abort" THEN [inner EXCEPT !.op = "olympus_open_vsi"]
     ELSE [inner EXCEPT
             !.op = "olympus_open_vsi",
             !.handles = inner.handles + _openslide_tiffcache_put(got, TRUE),
             !.live = inner.live \cup tc
                        \cup (IF kind = "ets" THEN Allocs("tifflike", 1) ELSE {})]

\* the TIFF steps between the get and the call of the backend
VsiSteps ==
  {"ok", "Can't read compression scheme", "Unsupported TIFF compression",
   "Couldn't read TIFF properties", "Couldn't set TIFF directory",
   "Couldn't add associated image"}

\* what olympus_open_ets returns on the files tried through olympus_open_vsi
VsiEtsOpens ==
  { olympus_open_ets(openOk, eh, seekOk, tiles) :
      openOk \in BOOLEAN, eh \in HeaderVariants(BaseHeader(1, 1)),
      seekOk \in BOOLEAN,
      tiles \in { << >>, DirOf(<< << 1, 1 >> >>, 0, FALSE, 0) } }

\* what olympus_open_tif returns on them
VsiTifOpens ==
  { olympus_open_tif(tiffOk, hasDesc, xmlOk, initOk, 1, 1, << d >>) :
      tiffOk \in BOOLEAN, hasDesc \in BOOLEAN, xmlOk \in BOOLEAN,
      initOk \in BOOLEAN, d \in TifDirs }

OpenVsi ==
  /\ backend = NoBackend
  /\ \E kind \in {"ets", "tif", "vsi"}, parentOk \in BOOLEAN,
        tiffOk \in BOOLEAN, step \in VsiSteps,
        fmt \in {"ETS", "TIF", "UNKNOWN", "crash"} :
       \E inner \in IF kind = "ets" \/ (kind = "vsi" /\ fmt = "ETS")
                    THEN VsiEtsOpens
                    ELSE VsiTifOpens :
         backend' = olympus_open_vsi(kind, parentOk, tiffOk, step, fmt, inner)
  /\ UNCHANGED nonbackend

NextBackend ==
  \/ OpenEts
  \/ OpenTif
  \/ OpenVsi
  \/ PaintTifRegion
  \/ Destroy
  \/ BackendClose

SpecBackend == Init /\ [][NextBackend]_vars

\* the last open was olympus_open_ets and it returned true
EtsOpened == backend.op = "olympus_open_ets" /\ backend.result = "true"

HeaderValid(eh) == SisChecks(eh) /\ EtsChecks(eh)

\* C13: when a SIS/ETS header sanity check fails (wrong magic, headerSize
\* != 64, Ndim not 4 or 6, etsoffset != 64, etsnbytes != 228, dimz != 1,
\* pixelType, sizeC, colorspace or compression outside the accepted
\* values), olympus_open_ets returns false with a descriptive error set
\* and the process keeps running: it neither aborts nor goes on to build
\* levels from the invalid header.
C13_HeaderRejected ==
  (backend.op = "olympus_open_ets" /\ backend.header # NoHeader
     /\ ~HeaderValid(backend.header)) =>
    /\ backend.result = "false"
    /\ backend.err # NoError
    /\ backend.levels = << >>

\* the largest level index in the tile directory
MaxTileLevel(tiles) ==
  CHOOSE L \in { tiles[k].level : k \in 1..Len(tiles) } :
    \A k \in 1..Len(tiles) : tiles[k].level <= L

\* C16: after olympus_open_ets succeeds the level count is 1 + the largest
\* level index in the tile directory: 1 when every tile has level 0, 3
\* when the tiles span levels 0..2.
C16_LevelCount ==
  (EtsOpened /\ backend.tiles # << >>) =>
    /\ backend.level_count = 1 + MaxTileLevel(backend.tiles)
    /\ Len(backend.levels) = backend.level_count

\* the largest coord[0] (axis 1) or coord[1] (axis 2) of the tiles of the
\* highest-resolution level, the level with the largest tile extent
HighResMax(tiles, axis) ==
  LET v(k) == IF axis = 1 THEN tiles[k].x ELSE tiles[k].y
  IN CHOOSE mx \in { v(k) : k \in 1..Len(tiles) } :
       \A k \in 1..Len(tiles) : v(k) <= mx

\* C17: after olympus_open_ets succeeds level 0 has the tile extent
\* (tilexmax[0] + 1, tileymax[0] + 1) and the pixel dimensions
\* (dimx * (tilexmax[0] + 1), dimy * (tileymax[0] + 1)); with dimx = dimy =
\* 2 and level 0 tiles (0,0), (1,0), (0,1), (1,1) level 0 is 4 x 4 and its
\* grid 2 x 2.
C17_Level0Extent ==
  (EtsOpened /\ backend.tiles # << >>) =>
    LET eh == backend.header
        xm == HighResMax(backend.tiles, 1)
        ym == HighResMax(backend.tiles, 2)
        l0 == At(backend.levels, 0)
    IN /\ l0.tile_across = xm + 1
       /\ l0.tile_down = ym + 1
       /\ l0.w = eh.dimx * (xm + 1)
       /\ l0.h = eh.dimy * (ym + 1)

\* C18: for any slide opened by the ETS or the TIFF backend, level 0 has
\* the largest width of all levels and the level widths decrease
\* monotonically (never increase) with the level index, whatever order the
\* levels have on disk.
C18_WidthsDecrease ==
  backend.result = "true" =>
    \A i \in 1..Len(backend.levels) : \A j \in i..Len(backend.levels) :
      backend.levels[i].w >= backend.levels[j].w

\* a TIFF whose directories are stored narrowest first
C18_Witness ==
  /\ backend.op = "olympus_open_tif"
  /\ backend.result = "true"
  /\ backend.dirs = << Dir(TRUE, 1, 1), Dir(TRUE, 3, 3) >>
  /\ Len(backend.levels) = 2
  /\ backend.levels[1].w = 3
  /\ backend.levels[2].w = 1

\* C24: every TIFF handle obtained with _openslide_tiffcache_get in
\* paint_tif_region, olympus_open_tif and olympus_open_vsi has been put back
\* with _openslide_tiffcache_put when the function returns, on the success
\* path and on every failure path, so that no request for a handle waits
\* for one that never comes back.
C24_HandlesReturned ==
  backend.result \in {"true", "false"} => backend.handles = 0

\* C25: after destroy_ets or destroy_tif has returned, every block of
\* backend-private state the open allocated is released: for ETS the tile
\* directory array, the olympus_ops_data record, each level and its grid;
\* for TIFF the handle cache, the ops data, each level, its grid and its
\* per-channel tiffl array.
C25_DestroyReleasesAll ==
  backend.result = "destroyed" =>
    \A a \in backend.live :
      a[1] \notin {"tiles", "ops_data", "levels", "level", "grid",
                   "tiffcache", "tiffl"}

\* C26: the number of bytes ets_header_read consumes is the same for every
\* accepted combination of pixelType in {uint8, int32} and sizeC in {1, 3}
\* and does not exceed the 228 bytes of the descriptor.
C26_HeaderBytesFixed ==
  backend.ets_bytes # 0 =>
    /\ backend.ets_bytes <= EtsHeaderSize
    /\ \A pixelType \in {PIXEL_TYPE_UINT8, PIXEL_TYPE_INT32},
          sizeC \in {CHANNEL_GRAYSCALE, CHANNEL_RGB} :
         backend.ets_bytes =
           ets_header_bytes([backend.header EXCEPT !.pixelType = pixelType,
                                                   !.sizeC = sizeC])

---------------------------------------------------------------------------
(* openslide-vendor-olympus.c: format detection *)

\* the characters of the file names and literals of the model
Chars(name) ==
  CASE name = "stack0" -> << 115, 116, 97, 99, 107, 48 >>
    [] name = "stack1" -> << 115, 116, 97, 99, 107, 49 >>
    [] name = "thumbs" -> << 116, 104, 117, 109, 98, 115 >>
    [] name = "frame_t.ets" -> << 102, 114, 97, 109, 101, 95, 116, 46, 101, 116, 115 >>
    [] name = "frame_t.tif" -> << 102, 114, 97, 109, 101, 95, 116, 46, 116, 105, 102 >>
    [] name = "aaa.xml" -> << 97, 97, 97, 46, 120, 109, 108 >>
    [] name = "zzz.dat" -> << 122, 122, 122, 46, 100, 97, 116 >>
    [] name = "frame_t" -> << 102, 114, 97, 109, 101, 95, 116 >>
    [] name = ".ets" -> << 46, 101, 116, 115 >>
    [] name = ".tif" -> << 46, 116, 105, 102 >>
    [] name = ".vsi" -> << 46, 118, 115, 105 >>
    [] name = "slide.ets" -> << 115, 108, 105, 100, 101, 46, 101, 116, 115 >>
    [] name = "slide.tif" -> << 115, 108, 105, 100, 101, 46, 116, 105, 102 >>
    [] name = "slide.vsi" -> << 115, 108, 105, 100, 101, 46, 118, 115, 105 >>
    [] name = "slide.svs" -> << 115, 108, 105, 100, 101, 46, 115, 118, 115 >>
    [] name = "/" -> << 47 >>
    [] name = "." -> << 46 >>
    [] name = "_" -> << 95 >>
    [] name = "a" -> << 97 >>

RECURSIVE strncmp_from(_, _, _, _)
\* strncmp(a, b, n) from character i on: the sign of the first difference,
\* a string ending where the other goes on being the smaller one
strncmp_from(a, b, n, i) ==
  IF i > n THEN 0
  ELSE LET ca == IF i <= Len(a) THEN a[i] ELSE 0
           cb == IF i <= Len(b) THEN b[i] ELSE 0
       IN IF ca # cb THEN ca - cb
          ELSE IF ca = 0 THEN 0
          ELSE strncmp_from(a, b, n, i + 1)

strncmp(a, b, n) == strncmp_from(Chars(a), Chars(b), n, 1)

g_str_has_suffix(str, suffix) ==
  LET a == Chars(str)
      b == Chars(suffix)
  IN /\ Len(a) >= Len(b)
     /\ SubSeq(a, Len(a) - Len(b) + 1, Len(a)) = b

ETS_EXT == ".ets"
TIF_EXT == ".tif"
VSI_EXT == ".vsi"

\* a return value and the number of g_set_error calls so far
Ret(result, errs) == [result |-> result, errs |-> errs]

olympus_ets_detect(f, errs) ==
  IF f.tl # "null" THEN Ret("false", errs + 1)
  ELSE IF ~g_str_has_suffix(f.name, ETS_EXT) THEN Ret("false", errs + 1)
  ELSE IF ~f.exists THEN Ret("false", errs + 1)
  ELSE Ret("true", errs)

\* _openslide_tifflike_get_buffer and _openslide_xml_parse set the error
\* when they return NULL; _openslide_xml_xpath_get_string returns NULL for a
\* path that matches nothing, and strcmp reads through it
olympus_tif_detect(f, errs) ==
  IF f.tl = "null" THEN Ret("false", errs + 1)
  ELSE IF f.tl # "tiled" THEN Ret("false", errs + 1)
  ELSE IF ~g_str_has_suffix(f.name, TIF_EXT) THEN Ret("false", errs + 1)
  ELSE IF ~f.exists THEN Ret("false", errs + 1)
  ELSE IF f.desc = "missing" THEN Ret("false", errs + 1)
  ELSE IF f.desc = "badxml" THEN Ret("false", errs + 1)
  ELSE IF f.desc = "nouser" THEN Ret("crash", errs)
  ELSE IF f.desc # "olympus" THEN Ret("false", errs)
  ELSE Ret("true", errs)

\* an entry of the payload directory: a directory with its files in the
\* order g_dir_read_name returns them, or a plain file
Entry(name, isdir, files) == [name |-> name, isdir |-> isdir, files |-> files]

\* enum slide_format and the file found, or "crash"
Related(fmt, name, errs) == [fmt |-> fmt, name |-> name, errs |-> errs]

\* the DONE label; current_file is "" when no file was read.
\* g_str_has_suffix(NULL, ...) is FALSE when GLib checks its arguments and
\* reads through NULL when it does not.
RelatedDone(current_file, checks, errs) ==
  IF current_file = ""
  THEN IF checks THEN Related("UNKNOWN", "", errs + 1)
       ELSE Related("crash", "", errs)
  ELSE IF g_str_has_suffix(current_file, ETS_EXT)
  THEN Related("ETS", current_file, errs)
  ELSE IF g_str_has_suffix(current_file, TIF_EXT)
  THEN Related("TIF", current_file, errs)
  ELSE Related("UNKNOWN", "", errs + 1)

RECURSIVE RelatedLoop(_, _, _, _)
\* the loop over the entries of the payload directory from entry k on.
\* g_dir_open sets the error and returns NULL for something that is no
\* directory; g_dir_read_name(NULL) is NULL when GLib checks its arguments.
\* Only the first file of the first entry that is not below "stack1" is
\* looked at: both branches of the inner loop leave the function.
RelatedLoop(payload, k, checks, errs) ==
  IF k >= Len(payload) THEN Related("UNKNOWN", "", errs)
  ELSE LET e == At(payload, k)
       IN IF strncmp(e.name, "stack1", 6) < 0
          THEN RelatedLoop(payload, k + 1, checks, errs)
          ELSE IF ~e.isdir
          THEN IF checks THEN RelatedDone("", checks, errs + 1)
               ELSE Related("crash", "", errs + 1)
          ELSE IF e.files = << >> THEN RelatedDone("", checks, errs)
          ELSE IF strncmp(At(e.files, 0), "frame_t", 7) >= 0
          THEN RelatedDone(At(e.files, 0), checks, errs)
          ELSE Related("UNKNOWN", "", errs + 1)

_get_related_image_file(has_payload, payload, checks, errs) ==
  IF ~has_payload
  THEN IF checks THEN Related("UNKNOWN", "", errs + 1)
       ELSE Related("crash", "", errs + 1)
  ELSE RelatedLoop(payload, 0, checks, errs)

\* f is the file, payload the listing of <dir>/_<stem>_ and image what the
\* image files below it hold
olympus_vsi_detect(f, has_payload, payload, image, checks) ==
  IF g_str_has_suffix(f.name, ETS_EXT) THEN olympus_ets_detect(f, 0)
  ELSE IF g_str_has_suffix(f.name, TIF_EXT) THEN olympus_tif_detect(f, 0)
  ELSE IF ~g_str_has_suffix(f.name, VSI_EXT) THEN Ret("false", 1)
  ELSE IF ~f.exists THEN Ret("false", 1)
  ELSE IF f.tl = "null" THEN Ret("false", 1)
  ELSE IF f.tl = "tiled" THEN Ret("false", 1)
  ELSE LET r == _get_related_image_file(has_payload, payload, checks, 0)
           slidedat_file == File(r.name, TRUE, image.tl, image.desc)
       IN IF r.fmt = "crash" THEN Ret("crash", r.errs)
          ELSE IF r.fmt = "ETS" THEN olympus_ets_detect(slidedat_file, r.errs)
          ELSE IF r.fmt = "TIF" THEN olympus_tif_detect(slidedat_file, r.errs)
          ELSE Ret("false", r.errs + 1)

\* what a file can hold: no TIFF, a TIFF that is not tiled (its image
\* description is never read), or a tiled TIFF with an image description
Contents ==
  { File("", TRUE, "null", "missing"), File("", TRUE, "untiled", "missing") } \cup
  { File("", TRUE, "tiled", desc) :
      desc \in { "missing", "badxml", "nouser", "other", "olympus" } }

TargetNames == { "slide.ets", "slide.tif", "slide.vsi", "slide.svs" }
StackNames == { "stack0", "stack1", "thumbs" }
FileNames == { "frame_t.ets", "frame_t.tif", "aaa.xml", "zzz.dat" }

\* the sequences of up to n different elements of S
Listings(S, n) ==
  UNION { { q \in [1..k -> S] : \A i, j \in 1..k : q[i] = q[j] => i = j } :
          k \in 0..n }

Entries ==
  { Entry(name, FALSE, << >>) : name \in StackNames } \cup
  { Entry(name, TRUE, files) :
      name \in StackNames, files \in Listings(FileNames, MaxFiles) }

Payloads ==
  { q \in Listings(Entries, MaxEntries) :
      \A i, j \in 1..Len(q) : q[i].name = q[j].name => i = j }

\* the detection reaches _get_related_image_file
ReachesPayload(f) ==
  /\ g_str_has_suffix(f.name, VSI_EXT)
  /\ f.exists
  /\ f.tl = "untiled"

Detect ==
  /\ det = NoDet
  /\ \E name \in TargetNames, c \in Contents, exists \in BOOLEAN :
       LET f == IF exists THEN File(name, TRUE, c.tl, c.desc)
                ELSE File(name, FALSE, "null", "missing")
           in == [NoDet EXCEPT !.op = "olympus_vsi_detect", !.file = f]
       IN IF ~ReachesPayload(f)
          THEN LET r == olympus_vsi_detect(f, FALSE, << >>, c, TRUE)
               IN det' = [in EXCEPT !.result = r.result, !.errs = r.errs]
          ELSE \E has_payload \in BOOLEAN, checks \in BOOLEAN :
                 \E payload \in IF has_payload THEN Payloads ELSE { << >> },
                    image \in Contents :
                   LET r == olympus_vsi_detect(f, has_payload, payload, image, checks)
                   IN det' = [in EXCEPT !.has_payload = has_payload,
                                        !.payload = payload, !.image = image,
                                        !.checks = checks,
                                        !.result = r.result, !.errs = r.errs]
  /\ UNCHANGED nondet

\* the caller takes the answer
DetectReturn ==
  /\ det # NoDet
  /\ det' = NoDet
  /\ UNCHANGED nondet

NextDetect ==
  \/ Detect
  \/ DetectReturn

SpecDetect == Init /\ [][NextDetect]_vars

\* C14: every path on which olympus_vsi_detect (with olympus_ets_detect,
\* olympus_tif_detect and _get_related_image_file) rejects a file returns
\* false with the error set exactly once, and no input (a missing payload
\* directory, an empty stack directory, a TIFF without ImageDescription,
\* XML without /OME/Experimenter/@UserName, a UserName that is not
\* olympus) makes it read through a null pointer or crash.
C14_RejectsCleanly ==
  (det.op = "olympus_vsi_detect" /\ det.result # "true") =>
    /\ det.result = "false"
    /\ det.errs = 1

\* the image file of a stack directory passes the detection of its kind
PassesOwnDetect(name, image) ==
  \/ name = "frame_t.ets"
       /\ olympus_ets_detect(File(name, TRUE, image.tl, image.desc), 0).result = "true"
  \/ name = "frame_t.tif"
       /\ olympus_tif_detect(File(name, TRUE, image.tl, image.desc), 0).result = "true"

\* some stack<N> directory of the payload directory holds a frame_t.ets or
\* frame_t.tif that passes its own detection
HasPayloadImage ==
  /\ det.has_payload
  /\ \E k \in 1..Len(det.payload) :
       /\ det.payload[k].isdir
       /\ det.payload[k].name \in { "stack0", "stack1" }
       /\ \E i \in 1..Len(det.payload[k].files) :
            PassesOwnDetect(det.payload[k].files[i], det.image)

\* C15: for an existing non-tiled TIFF-like <dir>/<stem>.vsi the detection
\* accepts whenever a payload <dir>/_<stem>_/stack<N>/frame_t.ets (or .tif)
\* exists and passes its own detection, for every N and whatever other
\* entries the payload directory has and in whatever order they are
\* enumerated, and rejects when there is no such payload.
C15_PayloadDecides ==
  (det.op = "olympus_vsi_detect" /\ ReachesPayload(det.file)) =>
    (det.result = "true" <=> HasPayloadImage)

---------------------------------------------------------------------------
(* openslide-vendor-olympus.c: the paths of a slide and of its payload *)

\* G_IS_DIR_SEPARATOR
IsDirSeparator(c) == c = Chars("/")[1]

\* the number of directory separators a string starts with
SepPrefix(s) ==
  Cardinality({ i \in 1..Len(s) : \A j \in 1..i : IsDirSeparator(s[j]) })

\* the number of directory separators a string ends with
SepSuffix(s) ==
  Cardinality({ i \in 1..Len(s) : \A j \in i..Len(s) : IsDirSeparator(s[j]) })

\* g_path_get_dirname: "." without a separator; otherwise what comes before
\* the last separator, the separators before it dropped, a leading one kept
g_path_get_dirname(file_name) ==
  LET seps == { i \in 1..Len(file_name) : IsDirSeparator(file_name[i]) }
  IN IF seps = {} THEN Chars(".")
     ELSE LET base == CHOOSE i \in seps : \A j \in seps : j <= i
              stops == { i \in 1..base :
                           i = 1 \/ ~IsDirSeparator(file_name[i]) }
              len == CHOOSE i \in stops : \A j \in stops : j <= i
          IN SubSeq(file_name, 1, len)

\* g_path_get_basename: "." of the empty string, "/" of separators only,
\* otherwise the last component without its trailing separators
g_path_get_basename(file_name) ==
  IF file_name = << >> THEN Chars(".")
  ELSE LET last_nonslash == Len(file_name) - SepSuffix(file_name)
           seps == { i \in 1..last_nonslash : IsDirSeparator(file_name[i]) }
           base == IF seps = {} THEN 0
                   ELSE CHOOSE i \in seps : \A j \in seps : j <= i
       IN IF last_nonslash = 0 THEN Chars("/")
          ELSE SubSeq(file_name, base + 1, last_nonslash)

\* g_build_filename of two elements: an empty element is skipped, the
\* leading separators of the first and the trailing ones of the last are
\* kept, and one separator joins what is between them
g_build_filename(first, second) ==
  LET core(e) == SubSeq(e, SepPrefix(e) + 1, Len(e) - SepSuffix(e))
      trail(e) == IF core(e) = << >> THEN e
                  ELSE SubSeq(e, Len(e) - SepSuffix(e) + 1, Len(e))
  IN IF first = << >> THEN second
     ELSE IF second = << >> THEN first
     ELSE SubSeq(first, 1, SepPrefix(first)) \o core(first)
          \o (IF core(first) # << >> /\ core(second) # << >>
              THEN Chars("/") ELSE << >>)
          \o core(second) \o trail(second)

\* g_strndup: the first n characters; n is a gsize, so a negative
\* difference is a huge count and copies the whole string
g_strndup(str, n) ==
  IF n < 0 \/ n > Len(str) THEN str ELSE SubSeq(str, 1, n)

\* _get_related_image_file up to slidedat_path: <dirname>/_<basename>_
slidedat_path(filename) ==
  LET whole == g_path_get_basename(filename)
      basename == g_strndup(whole, Len(whole) - Len(Chars(".vsi")))
      dirname == g_strndup(filename,
                   Len(filename) - Len(Chars(".vsi")) - Len(basename))
      slidedat_dir == Chars("_") \o basename \o Chars("_")
  IN g_build_filename(dirname, slidedat_dir)

\* _get_related_image_file: data_dir of an entry slide_dir of the payload
\* directory, and current_file of a file of it
current_file(filename, slide_dir, ets_or_tif_file) ==
  g_build_filename(g_build_filename(slidedat_path(filename), slide_dir),
                   ets_or_tif_file)

\* a stem taken whole from the payload directory's name
ParentStemUnstripped(basename_) == basename_

\* basename = basename_ + 1; basename[strlen(basename) - 1] = '\0'
ParentStem(basename_) == SubSeq(basename_, 2, Len(basename_) - 1)

_get_parent_image_file(filename) ==
  LET stackdir == g_path_get_dirname(filename)
      imagedir == g_path_get_dirname(stackdir)
      basename == ParentStem(g_path_get_basename(imagedir))
  IN g_build_filename(g_path_get_dirname(imagedir), basename)
     \o Chars(".vsi")

\* the characters of the names of the model
Alphabet == { Chars("a")[1], Chars("_")[1], Chars(".")[1] }

\* the non-empty names of at most n characters
Names(n) == UNION { [1..k -> Alphabet] : k \in 1..n }

RECURSIVE JoinPath(_)
\* the components of a directory joined by one separator each
JoinPath(segs) ==
  IF Len(segs) = 0 THEN << >>
  ELSE IF Len(segs) = 1 THEN segs[1]
  ELSE segs[1] \o Chars("/") \o JoinPath(Tail(segs))

\* the directories <dir>: absolute or relative, of at most MaxDepth
\* components, without a trailing separator ("" is the root)
Directories ==
  { (IF abs THEN Chars("/") ELSE << >>) \o JoinPath(segs) :
      abs \in BOOLEAN,
      segs \in UNION { [1..k -> Names(1)] : k \in 0..MaxDepth } }
  \ { << >> }

\* the slide files <dir>/<stem>.vsi
SlideFiles ==
  { (IF dir = Chars("/") THEN dir ELSE dir \o Chars("/"))
      \o stem \o Chars(".vsi") :
      dir \in Directories, stem \in Names(MaxName) }

\* the payload file _get_related_image_file reaches for a slide
RelatedImageFile ==
  /\ path.op = "none"
  /\ \E filename \in SlideFiles, slide_dir \in { "stack1", "thumbs" },
        file \in { "frame_t.ets", "frame_t.tif" } :
       path' = [NoPath EXCEPT
                  !.op = "related",
                  !.filename = filename,
                  !.payload = current_file(filename, Chars(slide_dir),
                                           Chars(file))]
  /\ UNCHANGED nonpath

\* the slide file _get_parent_image_file derives from the payload file
ParentImageFile ==
  /\ path.op = "related"
  /\ path' = [path EXCEPT !.op = "parent",
                          !.parent = _get_parent_image_file(path.payload)]
  /\ UNCHANGED nonpath

PathReturn ==
  /\ path.op = "parent"
  /\ path' = NoPath
  /\ UNCHANGED nonpath

NextPath == RelatedImageFile \/ ParentImageFile \/ PathReturn

SpecPath == Init /\ [][NextPath]_vars

\* C27: the parent of the payload file <dir>/_<stem>_/stack<N>/frame_t.ets
\* that _get_related_image_file derives from <dir>/<stem>.vsi is
\* <dir>/<stem>.vsi again.
C27_ParentRoundTrip ==
  path.op = "parent" => path.parent = path.filename

C27_Witness ==
  /\ path.op = "parent"
  /\ path.filename = Chars("/") \o Chars("a") \o Chars("/") \o Chars("_")
                       \o Chars(".vsi")
  /\ path.payload = Chars("/") \o Chars("a") \o Chars("/") \o Chars("_")
                      \o Chars("_") \o Chars("_") \o Chars("/")
                      \o Chars("stack1") \o Chars("/") \o Chars("frame_t.ets")
  /\ path.parent = path.filename

---------------------------------------------------------------------------
(* openslide-vendor-olympus.c: the tile readers and the tile cache *)

\* the tile directories with channels below n: tiles of column 0 and
\* row 0, given by their channel coord[2], in ascending order
DirectoriesOf(n) ==
  { s \in UNION { [1..k -> 0..(n - 1)] : k \in 0..n } :
      \A i \in 1..Len(s), j \in 1..Len(s) : i < j => s[i] < s[j] }

\* findtile: a pointer to the first tile of the directory with the key,
\* NULL when no tile has it
findtile(tiles, ntiles, channel) ==
  LET hits == { n \in 1..ntiles : tiles[n] = channel }
  IN IF hits = {} THEN NULL
     ELSE << CHOOSE n \in hits : \A m \in hits : n <= m >>

\* a sequence without one of its elements
Without(seq, e) == SelectSeq(seq, LAMBDA x : x # e)

\* the entry of the cache's table under a key, 0 when it has none
Lookup(c, channel) ==
  LET hits == { e \in EntryIds : /\ c.ents[e].state = "cached"
                                 /\ c.ents[e].channel = channel }
  IN IF hits = {} THEN 0 ELSE CHOOSE e \in hits : TRUE

\* get: the entry under the key with one more reference, now the most
\* recently used; 0 when the key is not cached
_openslide_cache_get(c, channel) ==
  LET e == Lookup(c, channel)
  IN IF e = 0 THEN [cache |-> c, entry |-> 0]
     ELSE [cache |->
             [c EXCEPT
                !.ents = [i \in EntryIds |->
                            IF i = e THEN [c.ents[i] EXCEPT !.refs = @ + 1]
                            ELSE c.ents[i]],
                !.lru = Append(Without(c.lru, e), e)],
           entry |-> e]

RECURSIVE Evict(_)
\* while the budget is exceeded the least recently used entry that nobody
\* holds is dropped; an entry somebody holds is pinned
Evict(c) ==
  LET cand == { k \in 1..Len(c.lru) : c.ents[c.lru[k]].refs = 0 }
  IN IF Len(c.lru) <= CacheTiles \/ cand = {} THEN c
     ELSE LET k == CHOOSE n \in cand : \A m \in cand : n <= m
              e == c.lru[k]
          IN Evict([c EXCEPT
                      !.ents = [i \in EntryIds |->
                                  IF i = e THEN NoEntry ELSE c.ents[i]],
                      !.lru = Without(c.lru, e)])

\* an entry freed when it is replaced, whoever holds it
DetachEntryFreed(ent) == NoEntry

\* the entry a put replaces leaves the table, and lives on until the last
\* reference to it is released
DetachEntry(ent) ==
  IF ent.refs = 0 THEN NoEntry ELSE [ent EXCEPT !.state = "detached"]

\* put: a new entry with the caller's reference takes the key's place in
\* the table; users are the entries some reader still points at
_openslide_cache_put(c, channel, pixels, users) ==
  LET old == Lookup(c, channel)
      unused == { e \in EntryIds : c.ents[e].state = "free" /\ e \notin users }
      fresh == CHOOSE e \in unused : \A m \in unused : e <= m
      ents == [i \in EntryIds |->
                 IF i = old THEN DetachEntry(c.ents[i])
                 ELSE IF i = fresh
                      THEN [state |-> "cached", channel |-> channel,
                            refs |-> 1, pixels |-> pixels]
                      ELSE c.ents[i]]
  IN [cache |-> Evict([c EXCEPT !.ents = ents,
                                !.lru = Append(Without(c.lru, old), fresh)]),
      entry |-> fresh]

\* unref: one reference less; an entry outside the table is freed with
\* its last reference
_openslide_cache_entry_unref(c, e) ==
  [c EXCEPT
     !.ents = [i \in EntryIds |->
                 IF i # e THEN c.ents[i]
                 ELSE IF c.ents[i].refs = 1 /\ c.ents[i].state = "detached"
                      THEN NoEntry
                      ELSE [c.ents[i] EXCEPT !.refs = @ - 1]]]

\* read_ets_image: opened, check and result are what _openslide_fopen,
\* fread and the decoder return. t->offset of a NULL t and fseeko on a NULL
\* FILE are undefined: the process crashes, or goes on with whatever it read
read_ets_image(t, opened, crash, check, result) ==
  LET undefined == t = NULL \/ ~opened
      opened_err == IF opened THEN NoError ELSE "Couldn't open file"
  IN IF undefined /\ crash
     THEN [ret |-> "crash", pixels |-> "none", err |-> opened_err,
           files |-> 0, buffers |-> 0]
     ELSE IF ~(check /\ opened)
     THEN \* goto FAIL: dest is freed, buffer and f are not
          [ret |-> "NULL", pixels |-> "none", err |-> opened_err,
           files |-> IF opened THEN 1 ELSE 0, buffers |-> 1]
     ELSE IF ~result
     THEN [ret |-> "NULL", pixels |-> "none", err |-> "Couldn't decode",
           files |-> 0, buffers |-> 0]
     ELSE [ret |-> "dest",
           pixels |-> IF undefined THEN "garbage" ELSE "decoded",
           err |-> NoError, files |-> 0, buffers |-> 0]

\* tiledata of read_tif_tile after _openslide_tiff_read_tile and
\* _openslide_tiff_clip_tile: freed when either fails
read_tif_image(read, clip) ==
  IF ~read THEN [ret |-> "NULL", pixels |-> "none", err |-> "Couldn't read tile"]
  ELSE IF ~clip THEN [ret |-> "NULL", pixels |-> "none", err |-> "Couldn't clip tile"]
  ELSE [ret |-> "dest", pixels |-> "decoded", err |-> NoError]

\* channels of olympus_open_ets: the largest channel of the directory,
\* and one more unless it is 0
EtsChannels(tiles) ==
  LET channels == IF Len(tiles) = 0 THEN 0
                  ELSE CHOOSE c \in 0..MaxChannels :
                         /\ \E n \in 1..Len(tiles) : tiles[n] = c
                         /\ \A n \in 1..Len(tiles) : tiles[n] <= c
  IN IF channels # 0 THEN channels + 1 ELSE channels

\* a return that keeps the reference
ReleasedEntryKept(c, e) == c

\* done with the cache entry, release it
ReleasedEntry(c, e) == _openslide_cache_entry_unref(c, e)

\* the record of one reader replaced
WithReader(r, rec) == [q \in Readers |-> IF q = r THEN rec ELSE rd[q]]

\* the entries some reader points at
Users == { rd[q].entry : q \in Readers }

\* what a reader hands back when it returns
Returned(r, decodes, drew, result, err, files, buffers) ==
  [reader |-> r, channel |-> rd[r].channel, t |-> rd[r].t, hit |-> rd[r].hit,
   decodes |-> decodes, drew |-> drew, result |-> result, err |-> err,
   files |-> files, buffers |-> buffers]

Crashed == resp.result = "crash"

\* olympus_open_ets and olympus_open_tif as far as the tile readers see
\* them: the backend, the channels of the level and the tile directory,
\* whose tiles lie in the channels below MaxTileIdx
TileOpen ==
  /\ cache.kind = "none"
  /\ \/ \E tiles \in DirectoriesOf(MaxTileIdx) :
          cache' = [NoCache EXCEPT !.kind = "ets",
                                   !.tile_ch = EtsChannels(tiles),
                                   !.tiles = tiles]
     \/ \E channels \in 1..MaxChannels :
          cache' = [NoCache EXCEPT !.kind = "tif", !.tile_ch = channels]
  /\ resp' = NoReturn
  /\ UNCHANGED rd
  /\ UNCHANGED nontile

\* read_ets_tile up to _openslide_cache_get
ReadEtsTile(r) ==
  /\ cache.kind = "ets" /\ ~Crashed
  /\ rd[r].pc = "idle"
  /\ \E tile_channel \in 0..(cache.tile_ch + 1) :
       IF tile_channel > cache.tile_ch
       THEN /\ resp' = [NoReturn EXCEPT !.reader = r,
                                       !.channel = tile_channel,
                                       !.result = "false"]
            /\ UNCHANGED <<cache, rd>>
       ELSE LET t == findtile(cache.tiles, Len(cache.tiles), tile_channel)
                got == _openslide_cache_get(cache, tile_channel)
            IN /\ cache' = got.cache
               /\ rd' = WithReader(r,
                          [pc |-> IF got.entry = 0 THEN "decode" ELSE "paint",
                           channel |-> tile_channel, t |-> t,
                           entry |-> got.entry, hit |-> got.entry # 0])
               /\ UNCHANGED resp
  /\ UNCHANGED nontile

\* read_ets_tile after a miss: read_ets_image and _openslide_cache_put
ReadEtsImage(r) ==
  /\ cache.kind = "ets" /\ ~Crashed
  /\ rd[r].pc = "decode"
  /\ \E opened \in BOOLEAN, crash \in BOOLEAN, check \in BOOLEAN,
        result \in BOOLEAN :
       LET img == read_ets_image(rd[r].t, opened, crash, check, result)
           put == _openslide_cache_put(cache, rd[r].channel, img.pixels, Users)
       IN IF img.ret = "dest"
          THEN /\ cache' = put.cache
               /\ rd' = WithReader(r, [rd[r] EXCEPT !.pc = "paint",
                                                    !.entry = put.entry])
               /\ UNCHANGED resp
          ELSE /\ rd' = WithReader(r, IdleReader)
               /\ resp' = Returned(r, 1, "none",
                                  IF img.ret = "crash" THEN "crash"
                                  ELSE "false",
                                  img.err, img.files, img.buffers)
               /\ UNCHANGED cache
  /\ UNCHANGED nontile

\* read_tif_tile up to _openslide_cache_get
ReadTifTile(r) ==
  /\ cache.kind = "tif" /\ ~Crashed
  /\ rd[r].pc = "idle"
  /\ \E tile_channel \in 0..(cache.tile_ch - 1) :
       LET got == _openslide_cache_get(cache, tile_channel)
       IN /\ cache' = got.cache
          /\ rd' = WithReader(r,
                     [pc |-> IF got.entry = 0 THEN "decode" ELSE "paint",
                      channel |-> tile_channel, t |-> NULL,
                      entry |-> got.entry, hit |-> got.entry # 0])
  /\ UNCHANGED resp
  /\ UNCHANGED nontile

\* read_tif_tile after a miss: the tile is read and clipped, then put
ReadTifImage(r) ==
  /\ cache.kind = "tif" /\ ~Crashed
  /\ rd[r].pc = "decode"
  /\ \E read \in BOOLEAN, clip \in BOOLEAN :
       LET img == read_tif_image(read, clip)
           put == _openslide_cache_put(cache, rd[r].channel, img.pixels, Users)
       IN IF img.ret = "dest"
          THEN /\ cache' = put.cache
               /\ rd' = WithReader(r, [rd[r] EXCEPT !.pc = "paint",
                                                    !.entry = put.entry])
               /\ UNCHANGED resp
          ELSE /\ rd' = WithReader(r, IdleReader)
               /\ resp' = Returned(r, 1, "none", "false", img.err, 0, 0)
               /\ UNCHANGED cache
  /\ UNCHANGED nontile

\* the end of either reader: cairo_paint reads the pixels of the entry,
\* _openslide_cache_entry_unref releases it, and the reader returns
PaintTile(r) ==
  /\ ~Crashed
  /\ rd[r].pc = "paint"
  /\ LET ent == cache.ents[rd[r].entry]
     IN resp' = Returned(r, IF rd[r].hit THEN 0 ELSE 1,
                        IF ent.state = "free" THEN "freed" ELSE ent.pixels,
                        "true", NoError, 0, 0)
  /\ cache' = ReleasedEntry(cache, rd[r].entry)
  /\ rd' = WithReader(r, IdleReader)
  /\ UNCHANGED nontile

\* the slide is closed, and its cache with it, when no reader is at work
TileClose ==
  /\ cache.kind # "none"
  /\ \A r \in Readers : rd[r].pc = "idle"
  /\ cache' = NoCache
  /\ resp' = NoReturn
  /\ UNCHANGED rd
  /\ UNCHANGED nontile

NextTile ==
  \/ TileOpen
  \/ \E r \in Readers : ReadEtsTile(r)
  \/ \E r \in Readers : ReadEtsImage(r)
  \/ \E r \in Readers : ReadTifTile(r)
  \/ \E r \in Readers : ReadTifImage(r)
  \/ \E r \in Readers : PaintTile(r)
  \/ TileClose

SpecTile == Init /\ [][NextTile]_vars

\* read_ets_tile went to read_ets_image for a key the directory does not
\* have, and is through with it
MissingTileRead ==
  /\ cache.kind = "ets"
  /\ resp.reader # 0
  /\ resp.t = NULL
  /\ resp.decodes = 1

\* C21: read_ets_tile on a key that has no tile in the directory and is
\* not cached paints a black tile and returns success, without reading
\* the missing tile record.
C21_MissingTileBlack ==
  MissingTileRead => (resp.result = "true" /\ resp.drew = "black")

\* the readers that hold a reference to an entry
Holders(e) == { r \in Readers : rd[r].entry = e /\ rd[r].pc = "paint" }

\* C22: in read_ets_tile and read_tif_tile every reference taken from the
\* cache (by a hit or by the put after a miss) is released exactly once
\* before the return, the pixels are painted while the reference is held,
\* a failed decode returns holding and inserting nothing, and no entry
\* stays pinned: the references of an entry are those of the readers
\* between their get or put and their paint.
C22_ReferencesBalanced ==
  /\ \A e \in EntryIds : cache.ents[e].refs = Cardinality(Holders(e))
  /\ \A r \in Readers : rd[r].pc # "paint" => rd[r].entry = 0
  /\ resp.result = "true" => resp.drew \in { "decoded", "garbage" }
  /\ resp.result = "false" => resp.drew = "none"
  /\ (~Crashed /\ \A r \in Readers : rd[r].pc = "idle") =>
       \A e \in EntryIds : /\ cache.ents[e].refs = 0
                           /\ cache.ents[e].state # "detached"

C22_Witness ==
  /\ cache.kind = "tif"
  /\ resp.result = "false" /\ resp.decodes = 1
  /\ \A r \in Readers : rd[r].pc = "idle"
  /\ \E e \in EntryIds : cache.ents[e].state = "cached"

\* C23: when two threads read the same key at once, each paints the
\* decoded pixels out of an entry it holds, each decodes at most once, and
\* the put of the second never frees or overwrites the buffer the first
\* paints from.
C23_ConcurrentReaders ==
  /\ resp.decodes <= 1
  /\ resp.drew # "freed"
  /\ (resp.result = "true" /\ (cache.kind = "tif" \/ resp.t # NULL)) =>
       resp.drew = "decoded"
  /\ \A r \in Readers :
       rd[r].pc = "paint" =>
         LET ent == cache.ents[rd[r].entry]
         IN /\ ent.state \in { "cached", "detached" }
            /\ ent.channel = rd[r].channel
            /\ ent.refs >= 1
            /\ ent.pixels \in { "decoded", "garbage" }

C23_Witness ==
  /\ cache.kind = "ets"
  /\ rd[1].pc = "paint" /\ rd[2].pc = "paint"
  /\ rd[1].channel = rd[2].channel
  /\ rd[1].t # NULL
  /\ ~rd[1].hit /\ ~rd[2].hit
  /\ rd[1].entry # rd[2].entry
  /\ cache.ents[rd[1].entry].state = "detached"
  /\ cache.ents[rd[2].entry].state = "cached"

\* C30: whenever read_ets_tile returns false, an error has been reported
\* through err, and the file handle and the buffer of read_ets_image have
\* been released.
C30_FailureReported ==
  (cache.kind = "ets" /\ resp.result = "false") =>
    /\ resp.err # NoError
    /\ resp.files = 0
    /\ resp.buffers = 0

---------------------------------------------------------------------------
(* argb2rgba.c *)

\* the offsets of argb2rgba.h
CA(big_endian) == IF big_endian THEN 0 ELSE 3
CR(big_endian) == IF big_endian THEN 1 ELSE 2
CG(big_endian) == IF big_endian THEN 2 ELSE 1
CB(big_endian) == IF big_endian THEN 3 ELSE 0

\* the largest unsigned char
UCharMax == 255

\* a scaling applied to every pixel that is not opaque
NeedsScalingNotOpaque(a) == a # UCharMax

\* if (a != 0 && a != 255)
NeedsScaling(a) == a # 0 /\ a # UCharMax

\* a scaling by 256 instead of 255
UnpremultiplyChannel256(c, a) == ((c * 256) \div a) % (UCharMax + 1)

\* r = r * 255 / a: int arithmetic, the quotient truncated, stored in an
\* unsigned char
UnpremultiplyChannel(c, a) == ((c * UCharMax) \div a) % (UCharMax + 1)

\* the unpremultiply step on the channels of one pixel; fault when the
\* division is by zero
Unpremultiply(p) ==
  IF ~NeedsScaling(p.a) THEN [fault |-> FALSE, p |-> p]
  ELSE IF p.a = 0 THEN [fault |-> TRUE, p |-> p]
  ELSE [fault |-> FALSE,
        p |-> Channels(p.a, UnpremultiplyChannel(p.r, p.a),
                       UnpremultiplyChannel(p.g, p.a),
                       UnpremultiplyChannel(p.b, p.a))]

\* the channels of the pixel in buf
ReadPixel(buf, big_endian) ==
  Channels(At(buf, CA(big_endian)), At(buf, CR(big_endian)),
           At(buf, CG(big_endian)), At(buf, CB(big_endian)))

\* one iteration of the loop of argb2rgba on the four bytes of a pixel
argb2rgba(buf, big_endian) ==
  LET u == Unpremultiply(ReadPixel(buf, big_endian))
  IN [fault |-> u.fault, first |-> u.p,
      out |-> IF u.fault THEN buf ELSE << u.p.r, u.p.g, u.p.b, u.p.a >>]

\* pixels of every alpha and green; red is half the green, blue the alpha
PixelInputs ==
  { Channels(a, g \div 2, g, a) : a \in 0..UCharMax, g \in 0..UCharMax }

\* the bytes of the pixel p in the byte order of the build
WritePixel(p, big_endian) ==
  IF big_endian THEN << p.a, p.r, p.g, p.b >> ELSE << p.b, p.g, p.r, p.a >>

Argb2Rgba ==
  /\ pix = NoPix
  /\ \E p \in PixelInputs, big_endian \in BOOLEAN :
       LET buf == WritePixel(p, big_endian)
           r == argb2rgba(buf, big_endian)
       IN pix' = [NoPix EXCEPT !.op = "argb2rgba", !.big_endian = big_endian,
                               !.buf = buf, !.out = r.out, !.first = r.first,
                               !.n = 1, !.fault = r.fault]
  /\ UNCHANGED nonpix

\* the unpremultiply step applied to the channel values it produced
UnpremultiplyAgain ==
  /\ pix.op = "argb2rgba"
  /\ pix.n = 1
  /\ ~pix.fault
  /\ LET u == Unpremultiply(pix.first)
     IN pix' = [pix EXCEPT !.second = u.p, !.n = 2, !.fault = u.fault]
  /\ UNCHANGED nonpix

\* the caller takes the buffer
PixReturn ==
  /\ pix # NoPix
  /\ pix' = NoPix
  /\ UNCHANGED nonpix

NextPix ==
  \/ Argb2Rgba
  \/ UnpremultiplyAgain
  \/ PixReturn

SpecPix == Init /\ [][NextPix]_vars

\* the pixel argb2rgba was given
PixIn == ReadPixel(pix.buf, pix.big_endian)

\* 0 < a < 255 and the colours are premultiplied
Translucent(p) == 0 < p.a /\ p.a < UCharMax /\ p.r <= p.a /\ p.g <= p.a /\ p.b <= p.a

\* c * 255 / a rounded to the nearest integer
Nearest(c, a) == (2 * c * UCharMax + a) \div (2 * a)

\* C19: for every pixel with 0 < a < 255 and premultiplied r, g, b <= a,
\* argb2rgba writes [r', g', b', a] where each c' is c * 255 / a rounded to
\* the nearest integer in 0..255 and a is unchanged; the little-endian
\* input [0x80, 0x40, 0x20, 0x80] (B, G, R, A) yields [0x40, 0x80, 0xFF, 0x80].
C19_RoundedNearest ==
  (pix.op = "argb2rgba" /\ Translucent(PixIn)) =>
    /\ pix.out = << Nearest(PixIn.r, PixIn.a), Nearest(PixIn.g, PixIn.a),
                    Nearest(PixIn.b, PixIn.a), PixIn.a >>
    /\ (~pix.big_endian /\ pix.buf = << 128, 64, 32, 128 >>) =>
         pix.out = << 64, 128, 255, 128 >>

\* C19 as the code has it: for every pixel with 0 < a < 255 and
\* premultiplied r, g, b <= a, argb2rgba writes [r', g', b', a] where each
\* c' is c * 255 / a rounded down, an integer in 0..255, and a is
\* unchanged; the little-endian input [0x80, 0x40, 0x20, 0x80] yields
\* [0x3F, 0x7F, 0xFF, 0x80].
C19_RoundedDown ==
  (pix.op = "argb2rgba" /\ Translucent(PixIn)) =>
    /\ ~pix.fault
    /\ pix.out = << (PixIn.r * 255) \div PixIn.a, (PixIn.g * 255) \div PixIn.a,
                    (PixIn.b * 255) \div PixIn.a, PixIn.a >>
    /\ \A k \in 1..3 : pix.out[k] \in 0..255
    /\ (~pix.big_endian /\ pix.buf = << 128, 64, 32, 128 >>) =>
         pix.out = << 63, 127, 255, 128 >>

C19_Witness ==
  /\ pix.op = "argb2rgba"
  /\ ~pix.big_endian
  /\ pix.buf = << 128, 64, 32, 128 >>
  /\ Translucent(PixIn)
  /\ pix.out = << 63, 127, 255, 128 >>

\* C20: the unpremultiply step of argb2rgba is idempotent on pixels with
\* a = 0 or a = 255: r, g, b and a pass through unscaled, so applying the
\* step twice gives the same channel values as applying it once.
C20_Idempotent ==
  (pix.op = "argb2rgba" /\ PixIn.a \in { 0, 255 }) =>
    /\ ~pix.fault
    /\ pix.first = PixIn
    /\ pix.out = << PixIn.r, PixIn.g, PixIn.b, PixIn.a >>
    /\ pix.n = 2 => pix.second = pix.first

\* a transparent pixel with colour in it, converted twice
C20_Witness ==
  /\ pix.op = "argb2rgba"
  /\ pix.n = 2
  /\ PixIn = Channels(0, 100, 200, 0)
  /\ pix.second = Channels(0, 100, 200, 0)

============================================================================
